---------------------------- MODULE Spec2Model ----------------------------
(***************************************************************************)
(* Verification model of chuk-puzzles-gym: the CHUK-R scoring chain        *)
(* (benchmark/scoring.py, benchmark/models.py, models/evaluation.py), the  *)
(* episode engine (puzzle_arcade_server/eval.py), six of the games         *)
(* (puzzle_arcade_server/games) and the episode tracer                     *)
(* (models/evaluation.py).                                                 *)
(*                                                                         *)
(* Numbers.  Python floats are modelled by exact rationals [n, d] in       *)
(* lowest terms.  A score "rounded to 2 decimals" is an integer number of  *)
(* hundredths (10000 = 100.00).  None is the empty tuple <<>> and a        *)
(* present optional value v is <<v>>.                                      *)
(***************************************************************************)
EXTENDS Integers, Sequences, FiniteSets, TLC

VARIABLES
    fn,             \* the scoring function being applied, "" when none
    arg,            \* <<argument>> of that call, <<>> when none
    ret,            \* <<>> while the call is pending, <<value>> once it returned
    args,           \* run_episode's arguments, as a record
    pc,             \* position in run_episode
    game,           \* the game instance
    moves_made,     \* run_episode's locals
    invalid_moves,
    hints_used,
    status,
    elapsed,        \* the last reading of perf_counter() - start_time, in seconds
    hint_data,      \* <<>>, or <<hint>> between get_hint and _apply_hint
    result,         \* <<>>, or <<EpisodeResult>> once run_episode returned
    streak,         \* history: rejected moves since the last accepted one
    left_by,        \* history: how the while loop was left
    first,          \* <<>>, or <<EpisodeResult>> of an earlier call with the same arguments
    recorder,       \* <<>> when no trace recorder is attached, else <<its tallies>>
    eg_args,        \* evaluate_game's arguments, as a record
    eg,             \* evaluate_game's position, locals and outcome
    tracer          \* <<>> when no EpisodeTracer was built, else <<the tracer>>

scoring == <<fn, arg, ret>>

locals == <<moves_made, invalid_moves, hints_used, status>>

engine == <<args, pc, game, locals, elapsed, hint_data, result, streak, left_by, first,
            recorder>>

harness == <<eg_args, eg>>

vars == <<scoring, engine, harness, tracer>>

NoGame == [kind |-> "none"]

NoArgs == [game_class |-> "", difficulty |-> "", seed |-> 0,
           use_hints |-> FALSE, max_moves |-> 0]

ScoringIdle == fn = "" /\ arg = <<>> /\ ret = <<>>

NoCall == [game_name |-> "", difficulty |-> "", episodes |-> 0, seeds |-> <<>>,
           use_hints |-> FALSE, max_moves |-> 0]

NotCalled == [pc |-> "idle", seeds |-> <<>>, i |-> 0, report |-> <<>>, error |-> ""]

HarnessIdle == eg_args = NoCall /\ eg = NotCalled

TracerUnused == tracer = <<>>

EngineIdle ==
    /\ HarnessIdle
    /\ TracerUnused
    /\ recorder = <<>>
    /\ args = NoArgs
    /\ pc = "idle" /\ game = NoGame
    /\ moves_made = 0 /\ invalid_moves = 0 /\ hints_used = 0 /\ status = ""
    /\ elapsed = 0 /\ hint_data = <<>> /\ result = <<>>
    /\ streak = 0 /\ left_by = "" /\ first = <<>>

---------------------------------------------------------------------------
(* Bounds of the enumerated inputs.                                        *)

MaxStepsTaken == 2
MaxInvalidActions == 1
MaxHintsUsed == 2
MaxOptimalSteps == 2
MaxBacktrackCount == 2
MaxDistance == 1
MaxTraceLen == 2

---------------------------------------------------------------------------
(* Exact rational arithmetic.                                              *)

Abs(x) == IF x < 0 THEN -x ELSE x

RECURSIVE Gcd(_, _)
Gcd(a, b) == IF b = 0 THEN a ELSE Gcd(b, a % b)

Lcm(a, b) == (a \div Gcd(a, b)) * b

Rat(n, d) ==
    LET g == Gcd(Abs(n), d)
    IN  [n |-> n \div g, d |-> d \div g]

RatInt(k) == [n |-> k, d |-> 1]

RatAdd(a, b) ==
    LET l == Lcm(a.d, b.d)
    IN  Rat(a.n * (l \div a.d) + b.n * (l \div b.d), l)

RatNeg(a) == [n |-> -a.n, d |-> a.d]

RatSub(a, b) == RatAdd(a, RatNeg(b))

RatScale(k, a) ==
    LET g == Gcd(Abs(k), a.d)
    IN  Rat((k \div g) * a.n, a.d \div g)

RatLt(a, b) ==
    LET l == Lcm(a.d, b.d)
    IN  a.n * (l \div a.d) < b.n * (l \div b.d)

RatLe(a, b) == ~RatLt(b, a)

RatMin(a, b) == IF RatLt(b, a) THEN b ELSE a

RatMax(a, b) == IF RatLt(a, b) THEN b ELSE a

RatDivInt(a, k) ==
    LET g == Gcd(Abs(a.n), k)
    IN  [n |-> a.n \div g, d |-> a.d * (k \div g)]

RECURSIVE RatSum(_)
RatSum(s) == IF s = <<>> THEN RatInt(0) ELSE RatAdd(Head(s), RatSum(Tail(s)))

RECURSIVE IntSum(_)
IntSum(s) == IF s = <<>> THEN 0 ELSE Head(s) + IntSum(Tail(s))

(* Python's round(x, 2) of a value given in hundredths: the nearest        *)
(* integer, an exact tie going to the even neighbour.                      *)
RoundHalfEven(a) ==
    LET q == a.n \div a.d
        r == a.n % a.d
    IN  IF 2 * r < a.d THEN q
        ELSE IF 2 * r > a.d THEN q + 1
        ELSE IF q % 2 = 0 THEN q ELSE q + 1

---------------------------------------------------------------------------
(* models/evaluation.py: EpisodeResult and ReasoningMetrics.               *)

EpisodeStatus == {"solved", "failed", "timeout", "abandoned"}

success(ep) == ep.status = "solved"

efficiency_score(ep) ==
    IF ~success(ep) \/ ep.optimal_steps = <<>> \/ ep.steps_taken = 0
    THEN RatInt(0)
    ELSE RatMin(RatInt(1), Rat(ep.optimal_steps[1], ep.steps_taken))

error_rate(ep) ==
    LET total == ep.steps_taken + ep.invalid_actions
    IN  IF total = 0 THEN RatInt(0) ELSE Rat(ep.invalid_actions, total)

hint_dependency(ep) ==
    IF ep.steps_taken = 0
    THEN RatInt(0)
    ELSE RatMin(RatInt(1), Rat(ep.hints_used, ep.steps_taken))

backtrack_rate(rm) ==
    LET valid_moves == Len(rm.solver_distance_trace)
    IN  IF valid_moves = 0 THEN RatInt(0) ELSE Rat(rm.backtrack_count, valid_moves)

progress_velocity(rm) ==
    LET trace == rm.solver_distance_trace
    IN  IF Len(trace) < 2 THEN RatInt(0)
        ELSE Rat(trace[1] - trace[Len(trace)], Len(trace) - 1)

progress_steadiness(rm) ==
    LET trace == rm.solver_distance_trace
        monotonic_steps == Cardinality({i \in 2..Len(trace) : trace[i] < trace[i - 1]})
    IN  IF Len(trace) < 2 THEN RatInt(1) ELSE Rat(monotonic_steps, Len(trace) - 1)

---------------------------------------------------------------------------
(* benchmark/scoring.py: score_episode.  The weights are in hundredths of  *)
(* a score point per unit of component (0.40 * 100 * 100 = 4000).          *)

W_EFFICIENCY == 4000
W_ERROR == 1500
W_BACKTRACK == 1500
W_STEADINESS == 1500
W_HINT == 1500

FallbackSpan == 100

ScoreCeiling == 10000

EfficiencyComponent(ep) ==
    IF RatLt(RatInt(0), efficiency_score(ep))
    THEN efficiency_score(ep)
    ELSE RatMax(RatInt(0),
                RatSub(RatInt(1), RatMin(RatInt(1), Rat(ep.steps_taken - 1, FallbackSpan))))

BacktrackComponentDefaultZero(ep) ==
    IF ep.reasoning_metrics # <<>>
    THEN RatSub(RatInt(1), RatMin(RatInt(1), backtrack_rate(ep.reasoning_metrics[1])))
    ELSE RatInt(0)

BacktrackComponent(ep) ==
    IF ep.reasoning_metrics # <<>>
    THEN RatSub(RatInt(1), RatMin(RatInt(1), backtrack_rate(ep.reasoning_metrics[1])))
    ELSE RatInt(1)

SteadinessComponent(ep) ==
    IF ep.reasoning_metrics # <<>>
    THEN progress_steadiness(ep.reasoning_metrics[1])
    ELSE RatInt(1)

RawScore(ep) ==
    RatSum(<< RatScale(W_EFFICIENCY, EfficiencyComponent(ep)),
              RatScale(W_ERROR, RatSub(RatInt(1), error_rate(ep))),
              RatScale(W_BACKTRACK, BacktrackComponent(ep)),
              RatScale(W_STEADINESS, SteadinessComponent(ep)),
              RatScale(W_HINT, RatSub(RatInt(1), hint_dependency(ep))) >>)

ClampScoreNoCeiling(x) == RatMax(RatInt(0), x)

ClampScore(x) == RatMax(RatInt(0), RatMin(RatInt(ScoreCeiling), x))

score_episode(ep) ==
    IF ~success(ep) THEN 0 ELSE RoundHalfEven(ClampScore(RawScore(ep)))

---------------------------------------------------------------------------
(* The enumerated inputs of score_episode.                                 *)

SeqsUpTo(S, k) == UNION {[1..m -> S] : m \in 0..k}

StepsDomain == (0..MaxStepsTaken) \cup {FallbackSpan + 1, FallbackSpan + 2}

ReasoningMetricsDomain ==
    [backtrack_count : 0..MaxBacktrackCount,
     solver_distance_trace : SeqsUpTo(0..MaxDistance, MaxTraceLen)]

Optional(S) == {<<>>} \cup {<<x>> : x \in S}

EpisodeDomain ==
    [status : EpisodeStatus,
     steps_taken : StepsDomain,
     invalid_actions : 0..MaxInvalidActions,
     hints_used : 0..MaxHintsUsed,
     optimal_steps : Optional(1..MaxOptimalSteps),
     reasoning_metrics : Optional(ReasoningMetricsDomain)]

---------------------------------------------------------------------------
(* The scoring calls: Init draws the argument, the action applies the      *)
(* function.                                                               *)

InitScoreEpisode ==
    /\ EngineIdle
    /\ fn = "score_episode"
    /\ arg \in {<<ep>> : ep \in EpisodeDomain}
    /\ ret = <<>>

CallScoreEpisode ==
    /\ fn = "score_episode"
    /\ ret = <<>>
    /\ ret' = <<score_episode(arg[1])>>
    /\ UNCHANGED <<fn, arg, engine, harness, tracer>>

(* Building a ReasoningMetrics value and reading its computed fields.      *)
InitReasoningMetrics ==
    /\ EngineIdle
    /\ fn = "ReasoningMetrics"
    /\ arg \in {<<rm>> : rm \in ReasoningMetricsDomain}
    /\ ret = <<>>

CallReasoningMetrics ==
    /\ fn = "ReasoningMetrics"
    /\ ret = <<>>
    /\ ret' = <<[backtrack_rate |-> backtrack_rate(arg[1]),
                 progress_velocity |-> progress_velocity(arg[1]),
                 progress_steadiness |-> progress_steadiness(arg[1])]>>
    /\ UNCHANGED <<fn, arg, engine, harness, tracer>>

---------------------------------------------------------------------------
(* benchmark/families.py: the family registry, in declaration order.       *)

REASONING_FAMILIES ==
    << [family |-> "Logic",
        games |-> << "sudoku", "binary", "futoshiki", "nonogram", "logic",
                     "skyscrapers", "nqueens", "graph_coloring",
                     "cryptarithmetic", "hitori" >>],
       [family |-> "Constraint",
        games |-> << "kenken", "kakuro", "killer", "slither", "bridges",
                     "nurikabe", "fillomino", "shikaku", "hidato",
                     "star_battle", "tents", "einstein" >>],
       [family |-> "Search",
        games |-> << "mastermind", "minesweeper", "numberlink", "lights" >>],
       [family |-> "Planning",
        games |-> << "sokoban", "rush_hour", "knapsack", "scheduler" >>] >>

Range(s) == {s[i] : i \in DOMAIN s}

RECURSIVE Flatten(_)
Flatten(ss) == IF ss = <<>> THEN <<>> ELSE Head(ss) \o Flatten(Tail(ss))

ALL_BENCHMARK_GAMES ==
    Flatten([i \in DOMAIN REASONING_FAMILIES |-> REASONING_FAMILIES[i].games])

get_family_or_first(game_name) ==
    LET hits == {i \in DOMAIN REASONING_FAMILIES :
                    game_name \in Range(REASONING_FAMILIES[i].games)}
    IN  IF hits = {} THEN <<REASONING_FAMILIES[1].family>>
        ELSE <<REASONING_FAMILIES[CHOOSE i \in hits : \A j \in hits : i <= j].family>>

(* The first family, in declaration order, whose list holds the game;      *)
(* <<>> (None) when no list holds it.                                      *)
get_family(game_name) ==
    LET hits == {i \in DOMAIN REASONING_FAMILIES :
                    game_name \in Range(REASONING_FAMILIES[i].games)}
    IN  IF hits = {} THEN <<>>
        ELSE <<REASONING_FAMILIES[CHOOSE i \in hits : \A j \in hits : i <= j].family>>

(* The names get_family is asked about: every listed game and three names *)
(* that no family lists.                                                   *)
FamilyQueries == Range(ALL_BENCHMARK_GAMES) \cup {"chess", "nonexistent", ""}

InitGetFamily ==
    /\ EngineIdle
    /\ fn = "get_family"
    /\ arg \in {<<name>> : name \in FamilyQueries}
    /\ ret = <<>>

CallGetFamily ==
    /\ fn = "get_family"
    /\ ret = <<>>
    /\ ret' = <<get_family(arg[1])>>
    /\ UNCHANGED <<fn, arg, engine, harness, tracer>>

---------------------------------------------------------------------------
(* benchmark/models.py and benchmark/scoring.py: game, family and          *)
(* benchmark results.  Computed fields are operators on the stored record. *)

score_game(report) ==
    LET fam == get_family(report.game)
    IN  [game |-> report.game,
         family |-> IF fam = <<>> THEN "Unknown" ELSE fam[1],
         difficulty |-> report.difficulty,
         episodes_evaluated |-> Len(report.episodes),
         episodes_solved |-> Len(SelectSeq(report.episodes, success)),
         episode_scores |-> [i \in DOMAIN report.episodes |-> score_episode(report.episodes[i])]]

GameScoreSolvedOnly(g) ==
    LET Positive(x) == x > 0
        kept == SelectSeq(g.episode_scores, Positive)
    IN  IF kept = <<>> THEN RatInt(0) ELSE Rat(IntSum(kept), Len(kept))

GameScore(g) ==
    IF g.episode_scores = <<>>
    THEN RatInt(0)
    ELSE Rat(IntSum(g.episode_scores), Len(g.episode_scores))

IsEvaluated(g) == g.episodes_evaluated > 0

FamilyScoredWithPlaceholders(f) == [i \in DOMAIN f.games |-> GameScore(f.games[i])]

FamilyScored(f) ==
    LET kept == SelectSeq(f.games, IsEvaluated)
    IN  [i \in DOMAIN kept |-> GameScore(kept[i])]

FamilyScore(f) ==
    LET scored == FamilyScored(f)
    IN  IF scored = <<>> THEN RatInt(0) ELSE RatDivInt(RatSum(scored), Len(scored))

evaluated_count(f) == Len(SelectSeq(f.games, IsEvaluated))

FamilyIsEvaluated(f) == evaluated_count(f) > 0

chuk_r_over_games(b) ==
    IF b.games = <<>> THEN RatInt(0)
    ELSE RatDivInt(RatSum([i \in DOMAIN b.games |-> GameScore(b.games[i])]),
                   Len(b.games))

chuk_r(b) ==
    LET kept == SelectSeq(b.families, FamilyIsEvaluated)
        family_scores == [i \in DOMAIN kept |-> FamilyScore(kept[i])]
    IN  IF family_scores = <<>> THEN RatInt(0)
        ELSE RatDivInt(RatSum(family_scores), Len(family_scores))

families_evaluated(b) == Len(SelectSeq(b.families, FamilyIsEvaluated))

coverage(b) ==
    LET evaluated == Len(SelectSeq(b.games, IsEvaluated))
        total == Len(ALL_BENCHMARK_GAMES)
    IN  IF total = 0 THEN RatInt(0) ELSE Rat(evaluated, total)

Placeholder(game_name, family_name, difficulty) ==
    [game |-> game_name,
     family |-> family_name,
     difficulty |-> difficulty,
     episodes_evaluated |-> 0,
     episodes_solved |-> 0,
     episode_scores |-> <<>>]

FamilyEntryEvaluatedOnly(fam, game_results, difficulty) ==
    LET InFamily(g) == g.game \in Range(fam.games)
    IN  [family |-> fam.family,
         games |-> SelectSeq(game_results, InFamily),
         total_games |-> Len(fam.games)]

(* One family's entry: the scored results of its games in report order,    *)
(* then a placeholder for each declared game that has no result, in        *)
(* declaration order.                                                      *)
FamilyEntry(fam, game_results, difficulty) ==
    LET InFamily(g) == g.game \in Range(fam.games)
        family_game_results == SelectSeq(game_results, InFamily)
        evaluated_names == {family_game_results[i].game : i \in DOMAIN family_game_results}
        NotEvaluated(name) == name \notin evaluated_names
        missing == SelectSeq(fam.games, NotEvaluated)
    IN  [family |-> fam.family,
         games |-> family_game_results
                   \o [i \in DOMAIN missing |-> Placeholder(missing[i], fam.family, difficulty)],
         total_games |-> Len(fam.games)]

(* reports: the values of the reports dict in its iteration order.  The    *)
(* timestamp (datetime.now()) is not part of the modelled result.          *)
build_benchmark_result(reports, difficulty, episodes_per_game, solver_config_desc) ==
    LET game_results == [i \in DOMAIN reports |-> score_game(reports[i])]
    IN  [difficulty |-> difficulty,
         episodes_per_game |-> episodes_per_game,
         solver_config_desc |-> solver_config_desc,
         families |-> [i \in DOMAIN REASONING_FAMILIES |->
                          FamilyEntry(REASONING_FAMILIES[i], game_results, difficulty)],
         games |-> SelectSeq(game_results, IsEvaluated)]

---------------------------------------------------------------------------
(* The enumerated inputs of score_game and build_benchmark_result.         *)

MaxEpisodes == 2

Episode(outcome, steps, invalid, hints, optimal) ==
    [status |-> outcome, steps_taken |-> steps, invalid_actions |-> invalid,
     hints_used |-> hints, optimal_steps |-> optimal, reasoning_metrics |-> <<>>]

(* A failed episode (0), a perfect solve (100.00), a solve at half         *)
(* efficiency (80.00) and a hinted solve with one rejected move (77.50).   *)
EpisodeSamples ==
    { Episode("failed", 1, 0, 0, <<1>>),
      Episode("solved", 1, 0, 0, <<1>>),
      Episode("solved", 2, 0, 0, <<1>>),
      Episode("solved", 1, 1, 1, <<1>>) }

SampleGames == {"sudoku", "binary", "kenken", "chess"}

ReportDomain ==
    [game : SampleGames, difficulty : {"easy"},
     episodes : SeqsUpTo(EpisodeSamples, MaxEpisodes)]

BuildEpisodeSamples ==
    { Episode("failed", 1, 0, 0, <<1>>),
      Episode("solved", 1, 0, 0, <<1>>) }

MaxBuildEpisodes == 1

(* A reports dict: reports of distinct games, keyed by their game name,    *)
(* in any insertion order.                                                 *)
ReportsDomain ==
    {rs \in SeqsUpTo([game : SampleGames, difficulty : {"easy"},
                      episodes : SeqsUpTo(BuildEpisodeSamples, MaxBuildEpisodes)],
                     Cardinality(SampleGames)) :
        \A i, j \in DOMAIN rs : rs[i].game = rs[j].game => i = j}

InitScoreGame ==
    /\ EngineIdle
    /\ fn = "score_game"
    /\ arg \in {<<r>> : r \in ReportDomain}
    /\ ret = <<>>

CallScoreGame ==
    /\ fn = "score_game"
    /\ ret = <<>>
    /\ ret' = <<score_game(arg[1])>>
    /\ UNCHANGED <<fn, arg, engine, harness, tracer>>

InitBuildBenchmarkResult ==
    /\ EngineIdle
    /\ fn = "build_benchmark_result"
    /\ arg \in {<<rs>> : rs \in ReportsDomain}
    /\ ret = <<>>

CallBuildBenchmarkResult ==
    /\ fn = "build_benchmark_result"
    /\ ret = <<>>
    /\ ret' = <<build_benchmark_result(arg[1], "easy", MaxBuildEpisodes, "default")>>
    /\ UNCHANGED <<fn, arg, engine, harness, tracer>>

InitScore ==
    \/ InitScoreEpisode
    \/ InitReasoningMetrics
    \/ InitGetFamily
    \/ InitScoreGame
    \/ InitBuildBenchmarkResult

NextScore ==
    \/ CallScoreEpisode
    \/ CallReasoningMetrics
    \/ CallGetFamily
    \/ CallScoreGame
    \/ CallBuildBenchmarkResult

SpecScore == InitScore /\ [][NextScore]_vars

---------------------------------------------------------------------------
(* Claims about the scoring chain, checked under SpecScore.                *)

Returned(name) == fn = name /\ ret # <<>>

(* C1: for every EpisodeResult, score_episode returns a value in           *)
(* [0, 100], and exactly 0 whenever the status is not Solved.              *)
C1_ScoreBounded ==
    Returned("score_episode") =>
        /\ 0 <= ret[1]
        /\ ret[1] <= ScoreCeiling
        /\ (arg[1].status # "solved" => ret[1] = 0)

(* The weighted sum exceeds 100 (a solved episode of zero steps, whose     *)
(* fallback efficiency is 1.01) and the returned score is 100.             *)
C1_Witness ==
    /\ Returned("score_episode")
    /\ arg[1].status = "solved"
    /\ RatLt(RatInt(ScoreCeiling), RawScore(arg[1]))
    /\ ret[1] = ScoreCeiling

(* The claim's formula, in hundredths of a point: 4000 * efficiency +      *)
(* 1500 * ((1 - error_rate) + (1 - min(1, backtrack_rate)) + steadiness +  *)
(* (1 - hint_dependency)), backtrack and steadiness being 1 without        *)
(* reasoning metrics; clamped to [0, 10000].                               *)
C2_Formula(ep) ==
    LET rm == ep.reasoning_metrics
        bt == IF rm = <<>> THEN RatInt(1)
              ELSE RatSub(RatInt(1), RatMin(RatInt(1), backtrack_rate(rm[1])))
        stead == IF rm = <<>> THEN RatInt(1) ELSE progress_steadiness(rm[1])
        rest == RatSub(RatAdd(RatAdd(RatInt(2), bt), stead),
                       RatAdd(error_rate(ep), hint_dependency(ep)))
        x == RatAdd(RatScale(4000, EfficiencyComponent(ep)), RatScale(1500, rest))
    IN  IF RatLt(x, RatInt(0)) THEN RatInt(0)
        ELSE IF RatLt(RatInt(10000), x) THEN RatInt(10000) ELSE x

C2_Unpenalised(ep) ==
    /\ ep.invalid_actions = 0
    /\ ep.hints_used = 0
    /\ ep.reasoning_metrics # <<>> =>
          /\ backtrack_rate(ep.reasoning_metrics[1]) = RatInt(0)
          /\ progress_steadiness(ep.reasoning_metrics[1]) = RatInt(1)

(* C2: a solved episode's score is the weighted sum of the five            *)
(* components, clamped and rounded to the nearest hundredth; the weights   *)
(* sum to 1; a perfect solve scores 100 and halving only the efficiency    *)
(* gives 80.                                                               *)
C2_ScoreFormula ==
    (Returned("score_episode") /\ arg[1].status = "solved") =>
        LET ep == arg[1]
            twice == RatScale(2, RatSub(RatInt(ret[1]), C2_Formula(ep)))
        IN  /\ RatLe(RatInt(-1), twice)
            /\ RatLe(twice, RatInt(1))
            /\ W_EFFICIENCY + W_ERROR + W_BACKTRACK + W_STEADINESS + W_HINT = ScoreCeiling
            /\ (C2_Unpenalised(ep) /\ EfficiencyComponent(ep) = RatInt(1)) => ret[1] = 10000
            /\ (C2_Unpenalised(ep) /\ EfficiencyComponent(ep) = Rat(1, 2)) => ret[1] = 8000

(* A solve in twice the optimal number of steps, without reasoning         *)
(* metrics, scored 80.00.                                                  *)
C2_Witness ==
    /\ Returned("score_episode")
    /\ arg[1].status = "solved"
    /\ arg[1].optimal_steps = <<1>>
    /\ arg[1].steps_taken = 2
    /\ arg[1].invalid_actions = 0
    /\ arg[1].hints_used = 0
    /\ arg[1].reasoning_metrics = <<>>
    /\ ret[1] = 8000

RECURSIVE RatSumOver(_, _)
RatSumOver(S, f) ==
    IF S = {} THEN RatInt(0)
    ELSE LET x == CHOOSE y \in S : TRUE
         IN  RatAdd(f[x], RatSumOver(S \ {x}, f))

RECURSIVE IntSumOver(_, _)
IntSumOver(S, f) ==
    IF S = {} THEN 0
    ELSE LET x == CHOOSE y \in S : TRUE
         IN  f[x] + IntSumOver(S \ {x}, f)

C3_EpisodeMean(report) ==
    LET idx == DOMAIN report.episodes
    IN  Rat(IntSumOver(idx, [i \in idx |-> score_episode(report.episodes[i])]), Len(report.episodes))

C3_EvaluatedIn(reports, fam) ==
    {i \in DOMAIN reports :
        reports[i].game \in Range(fam.games) /\ Len(reports[i].episodes) >= 1}

C3_FamilyMean(reports, fam) ==
    LET E == C3_EvaluatedIn(reports, fam)
    IN  IF E = {} THEN RatInt(0)
        ELSE RatDivInt(RatSumOver(E, [i \in E |-> C3_EpisodeMean(reports[i])]), Cardinality(E))

C3_TopLine(reports) ==
    LET F == {k \in DOMAIN REASONING_FAMILIES :
                 C3_EvaluatedIn(reports, REASONING_FAMILIES[k]) # {}}
    IN  IF F = {} THEN RatInt(0)
        ELSE RatDivInt(RatSumOver(F, [k \in F |-> C3_FamilyMean(reports, REASONING_FAMILIES[k])]),
                       Cardinality(F))

(* C3: the top-line score is the mean, over the families with an           *)
(* evaluated game, of the family score; a family's score is the mean of    *)
(* the scores of its games with at least one episode (0 when it has none); *)
(* placeholders and zero-episode games enter neither mean; the top-line    *)
(* score is 0 when no family was evaluated and lies in [0, 100].           *)
C3_TopLineIsMeanOfFamilyMeans ==
    Returned("build_benchmark_result") =>
        /\ chuk_r(ret[1]) = C3_TopLine(arg[1])
        /\ \A k \in DOMAIN REASONING_FAMILIES :
              FamilyScore(ret[1].families[k]) = C3_FamilyMean(arg[1], REASONING_FAMILIES[k])
        /\ RatLe(RatInt(0), chuk_r(ret[1]))
        /\ RatLe(chuk_r(ret[1]), RatInt(ScoreCeiling))
        /\ (\A i \in DOMAIN arg[1] : get_family(arg[1][i].game) = <<>> \/ arg[1][i].episodes = <<>>)
              => chuk_r(ret[1]) = RatInt(0)

(* Logic evaluated on two games (100 and 0), Constraint on one (100), a    *)
(* zero-episode report and a game outside the registry: top line 75.       *)
C3_Witness ==
    /\ Returned("build_benchmark_result")
    /\ families_evaluated(ret[1]) = 2
    /\ chuk_r(ret[1]) = RatInt(7500)
    /\ \E i \in DOMAIN arg[1] : get_family(arg[1][i].game) = <<>>
    /\ \E i \in DOMAIN arg[1] : arg[1][i].episodes = <<>>

(* C4: the per-game score is the arithmetic mean of score_episode over the *)
(* report's episodes in order, unsolved episodes contributing 0;           *)
(* episodes_evaluated is the number of episodes, episodes_solved the       *)
(* number of solved ones; the score of a report without episodes is 0.     *)
C4_GameScoreIsMean ==
    Returned("score_game") =>
        LET eps == arg[1].episodes
            solved == {i \in DOMAIN eps : eps[i].status = "solved"}
        IN  /\ ret[1].episodes_evaluated = Len(eps)
            /\ ret[1].episodes_solved = Cardinality(solved)
            /\ Len(ret[1].episode_scores) = Len(eps)
            /\ \A i \in DOMAIN eps :
                  ret[1].episode_scores[i] =
                      IF i \in solved THEN score_episode(eps[i]) ELSE 0
            /\ GameScore(ret[1]) =
                  IF eps = <<>> THEN RatInt(0)
                  ELSE Rat(IntSumOver(solved, [i \in solved |-> score_episode(eps[i])]), Len(eps))

(* A report of one failed and one perfectly solved episode scored 50.      *)
C4_Witness ==
    /\ Returned("score_game")
    /\ Len(arg[1].episodes) = 2
    /\ ret[1].episodes_solved = 1
    /\ ret[1].episode_scores = <<0, 10000>>
    /\ GameScore(ret[1]) = RatInt(5000)


---------------------------------------------------------------------------
(* games/kakuro.py: KakuroGame.  A grid maps each cell <<row, col>>         *)
(* (0-indexed) to BLACK, EMPTY or a digit.  The harness only ever copies   *)
(* solution[r][c] into grid[r][c] and the game only compares the two, so   *)
(* the digits 1..9 drawn by random.sample are represented by one token.    *)

KakuroSize == 3

BLACK == 0 - 1

EMPTY == 0

DIGIT == 1

Rows == 0 .. (KakuroSize - 1)

Cells == Rows \X Rows

Min(a, b) == IF a <= b THEN a ELSE b

RECURSIVE RandomBlack(_, _)
(* k times: row, col = randint, randint; a white cell there turns black.   *)
RandomBlack(grids, k) ==
    IF k = 0 THEN grids
    ELSE RandomBlack({[g EXCEPT ![c] = BLACK] : g \in grids, c \in Cells}, k - 1)

(* The grids _create_pattern can leave: the first min(2, size) diagonal    *)
(* cells black, then size // 2 draws from the global random generator.     *)
create_pattern ==
    LET diagonal == [c \in Cells |->
                        IF c[1] = c[2] /\ c[1] < Min(2, KakuroSize) THEN BLACK ELSE EMPTY]
    IN  RandomBlack({diagonal}, KakuroSize \div 2)

(* The maximal horizontal and vertical sequences of non-black cells of     *)
(* length 2 or more, each as its set of cells.                             *)
find_runs(grid) ==
    LET White(r, c) == grid[<<r, c>>] # BLACK
        IsHorizontalRun(r, a, b) ==
            /\ a < b
            /\ \A c \in a .. b : White(r, c)
            /\ (a = 0 \/ ~White(r, a - 1))
            /\ (b = KakuroSize - 1 \/ ~White(r, b + 1))
        IsVerticalRun(c, a, b) ==
            /\ a < b
            /\ \A r \in a .. b : White(r, c)
            /\ (a = 0 \/ ~White(a - 1, c))
            /\ (b = KakuroSize - 1 \/ ~White(b + 1, c))
        Horizontal ==
            {{<<x[1], c>> : c \in x[2] .. x[3]} :
                x \in {y \in Rows \X Rows \X Rows : IsHorizontalRun(y[1], y[2], y[3])}}
        Vertical ==
            {{<<r, x[1]>> : r \in x[2] .. x[3]} :
                x \in {y \in Rows \X Rows \X Rows : IsVerticalRun(y[1], y[2], y[3])}}
    IN  Horizontal \cup Vertical

(* The games generate_puzzle can produce.  __init__ takes the difficulty   *)
(* only: nothing here depends on a seed.  A white cell that lies in no run *)
(* keeps the solution value it was copied with, 0.                         *)
KakuroGenerate ==
    {LET in_run == UNION find_runs(grid)
     IN  [kind |-> "kakuro",
          grid |-> grid,
          solution |-> [c \in Cells |-> IF c \in in_run THEN DIGIT ELSE grid[c]],
          initial_grid |-> grid,
          moves_made |-> 0] : grid \in create_pattern}

(* validate_move(row, col, num), 1-indexed: <<success, game afterwards>>.  *)
KakuroValidateMove(g, row, col, num) ==
    LET r == row - 1
        c == col - 1
    IN  IF ~(0 <= r /\ r < KakuroSize /\ 0 <= c /\ c < KakuroSize) THEN <<FALSE, g>>
        ELSE IF g.initial_grid[<<r, c>>] = BLACK THEN <<FALSE, g>>
        ELSE IF num = 0 THEN <<TRUE, [g EXCEPT !.grid[<<r, c>>] = EMPTY]>>
        ELSE IF ~(1 <= num /\ num <= 9) THEN <<FALSE, g>>
        ELSE <<TRUE, [g EXCEPT !.grid[<<r, c>>] = num, !.moves_made = @ + 1]>>

KakuroIsComplete(g) ==
    \A c \in Cells : /\ g.grid[c] # EMPTY
                     /\ (g.grid[c] # BLACK => g.grid[c] = g.solution[c])

(* The values get_hint can return: <<>> for None, else <<hint_data>> for   *)
(* any cell random.choice may pick among the empty ones.                   *)
KakuroGetHint(g) ==
    LET empty_cells == {c \in Cells : g.grid[c] = EMPTY}
    IN  IF empty_cells = {} THEN {<<>>}
        ELSE {<< <<c[1] + 1, c[2] + 1, g.solution[c]>> >> : c \in empty_cells}


---------------------------------------------------------------------------
(* base/puzzle_game.py: PuzzleGame, the interface run_episode drives.  A   *)
(* game of class "any" stands for an arbitrary implementation: all that is *)
(* kept of its state is whether is_complete() holds.  Class "accepting"    *)
(* is the same, narrowed to the games whose validate_move accepts every    *)
(* hint their get_hint gives.                                              *)

GameClasses == {"any", "accepting", "kakuro"}

GameName(g) == IF g.kind = "kakuro" THEN "Kakuro" ELSE "Any"

(* game_class(difficulty, seed) followed by generate_puzzle().             *)
generate_puzzle(class) ==
    IF class = "kakuro" THEN KakuroGenerate
    ELSE {[kind |-> class, complete |-> b] : b \in BOOLEAN}

(* Whether a call of the game's methods can raise: KakuroGame's cannot.    *)
can_raise(class) == class # "kakuro"

is_complete(g) == IF g.kind = "kakuro" THEN KakuroIsComplete(g) ELSE g.complete

(* The values get_hint() can return: <<>> for None, else <<hint_data>>.    *)
get_hint(g) ==
    IF g.kind = "kakuro" THEN KakuroGetHint(g)
    ELSE {<<>>, << <<"move">> >>}

(* The outcomes of _apply_hint(game, hint_data): a MoveResult ("result"),  *)
(* an exception run_episode catches ("caught": TypeError, ValueError,      *)
(* AttributeError, IndexError) or any other exception ("raised").  Only an *)
(* accepted move changes the game.                                         *)
apply_hint(g, hint) ==
    IF g.kind = "kakuro"
    THEN LET moved == KakuroValidateMove(g, hint[1], hint[2], hint[3])
         IN  {[outcome |-> "result", success |-> moved[1], game |-> moved[2]]}
    ELSE {[outcome |-> "result", success |-> TRUE, game |-> [g EXCEPT !.complete = b]] :
             b \in BOOLEAN}
         \cup {[outcome |-> o, success |-> FALSE, game |-> g] :
                  o \in IF g.kind = "accepting" THEN {"raised"}
                        ELSE {"result", "caught", "raised"}}

---------------------------------------------------------------------------
(* The trace recorder that fills a ReasoningMetrics (models/evaluation.py, *)
(* lines 41-82): one tally per move attempt that got a verdict.            *)

NewRecorder ==
    [backtrack_count |-> 0, solver_distance_trace |-> <<>>, error_streaks |-> <<>>,
     open_streak |-> 0, total_actions |-> 0]

(* A rejected move lengthens the open error streak.                        *)
RecordRejected(rec) ==
    [rec EXCEPT !.open_streak = @ + 1, !.total_actions = @ + 1]

(* An accepted move closes the open error streak, if any, and appends the  *)
(* remaining work to the distance trace.                                   *)
RecordAccepted(rec, remaining, overwrites) ==
    [rec EXCEPT
        !.error_streaks = IF rec.open_streak > 0 THEN Append(@, rec.open_streak) ELSE @,
        !.open_streak = 0,
        !.solver_distance_trace = Append(@, remaining),
        !.backtrack_count = IF overwrites THEN @ + 1 ELSE @,
        !.total_actions = @ + 1]

(* Episode end: a streak still open is closed.                             *)
FinalizeRecorder(rec) ==
    [rec EXCEPT
        !.error_streaks = IF rec.open_streak > 0 THEN Append(@, rec.open_streak) ELSE @,
        !.open_streak = 0]

(* What the recorder holds after a move attempt of the given outcome; an   *)
(* attempt that raised has no verdict to record.                           *)
Recorded(rec, outcome, accepted) ==
    IF rec = <<>> \/ outcome # "result" THEN {rec}
    ELSE IF accepted
    THEN {<<RecordAccepted(rec[1], d, o)>> : d \in 0 .. MaxDistance, o \in BOOLEAN}
    ELSE {<<RecordRejected(rec[1])>>}

---------------------------------------------------------------------------
(* eval.py: run_episode.                                                   *)

MaxMoves == 2

max_time_sec == 30

INVALID_LIMIT == 50

(* perf_counter() - start_time, in seconds: below, at and over the limit.  *)
ClockReadings == {0, max_time_sec, max_time_sec + 1}

LoopGuardPastBudget(moves, g, budget) == moves <= budget /\ ~is_complete(g)

(* while moves_made < max_moves and not game.is_complete()                 *)
LoopGuard(moves, g, budget) == moves < budget /\ ~is_complete(g)

TimedOutAtLimit(t) == t >= max_time_sec

(* if elapsed > max_time_sec                                               *)
TimedOut(t) == t > max_time_sec

CountInvalidDropped(n) == n

(* invalid_moves += 1                                                      *)
CountInvalid(n) == n + 1

CountHintTwice(n) == n + 2

(* hints_used += 1                                                         *)
CountHint(n) == n + 1

(* if invalid_moves > 50: break                                            *)
TooManyInvalid(n) == n > INVALID_LIMIT

FinalStatusKept(st, g) == st

(* if game.is_complete(): status = "solved"                                *)
FinalStatus(st, g) == IF is_complete(g) THEN "solved" ELSE st

EpisodeResult(t) ==
    [game |-> GameName(game),
     difficulty |-> args.difficulty,
     seed |-> args.seed,
     status |-> FinalStatus(status, game),
     moves_made |-> moves_made,
     invalid_moves |-> invalid_moves,
     hints_used |-> hints_used,
     wall_time_ms |-> t * 1000]

(* The state at the call of run_episode.                                   *)
InitEpisode(classes, hint_modes, budgets) ==
    /\ ScoringIdle
    /\ HarnessIdle
    /\ TracerUnused
    /\ recorder = <<>>
    /\ args \in [game_class : classes, difficulty : {"easy"}, seed : {42},
                 use_hints : hint_modes, max_moves : budgets]
    /\ pc = "start" /\ game = NoGame
    /\ moves_made = 0 /\ invalid_moves = 0 /\ hints_used = 0 /\ status = ""
    /\ elapsed = 0 /\ hint_data = <<>> /\ result = <<>>
    /\ streak = 0 /\ left_by = "" /\ first = <<>>

(* Lines 336-346: build the game, generate the puzzle, start the clock and *)
(* set the counters.  generate_puzzle() raising ends the call.             *)
Generate ==
    /\ pc = "start"
    /\ \/ /\ game' \in generate_puzzle(args.game_class)
          /\ status' = "failed"
          /\ pc' = "while"
       \/ /\ can_raise(args.game_class)
          /\ game' = game
          /\ status' = status
          /\ pc' = "raised"
    /\ moves_made' = 0 /\ invalid_moves' = 0 /\ hints_used' = 0
    /\ elapsed' = 0
    /\ UNCHANGED <<scoring, harness, tracer, args, hint_data, result, streak, left_by, first, recorder>>

(* Line 348: the loop condition.                                           *)
WhileGuard ==
    /\ pc = "while"
    /\ IF LoopGuard(moves_made, game, args.max_moves)
       THEN pc' = "check" /\ left_by' = left_by
       ELSE pc' = "after" /\ left_by' = "guard"
    /\ UNCHANGED <<scoring, harness, tracer, args, game, locals, elapsed, hint_data, result, streak,
                   first, recorder>>

(* Lines 350-353: read the clock; over the limit, status = "timeout" and   *)
(* break.                                                                  *)
CheckTimeout ==
    /\ pc = "check"
    /\ \E t \in ClockReadings :
          /\ t >= elapsed
          /\ elapsed' = t
          /\ IF TimedOut(t)
             THEN status' = "timeout" /\ left_by' = "timeout" /\ pc' = "after"
             ELSE status' = status /\ left_by' = left_by /\ pc' = "act"
    /\ UNCHANGED <<scoring, harness, tracer, args, game, moves_made, invalid_moves, hints_used,
                   hint_data, result, streak, first, recorder>>

(* Lines 355-364 and 381-383: with hints, ask the game for one (None:      *)
(* break; get_hint() raising ends the call); without, break.               *)
ObtainHint ==
    /\ pc = "act"
    /\ IF args.use_hints
       THEN \/ \E h \in get_hint(game) :
                  IF h = <<>>
                  THEN /\ pc' = "after" /\ left_by' = "no_hint"
                       /\ UNCHANGED <<hints_used, hint_data>>
                  ELSE /\ pc' = "apply" /\ left_by' = left_by
                       /\ hints_used' = CountHint(hints_used)
                       /\ hint_data' = h
            \/ /\ can_raise(game.kind)
               /\ pc' = "raised"
               /\ UNCHANGED <<hints_used, hint_data, left_by>>
       ELSE /\ pc' = "after" /\ left_by' = "hints_off"
            /\ UNCHANGED <<hints_used, hint_data>>
    /\ UNCHANGED <<scoring, harness, tracer, args, game, moves_made, invalid_moves, status,
                   elapsed, result, streak, first, recorder>>

(* Lines 366-380: apply the hint and count the move as made or invalid;    *)
(* over the invalid limit, break.  An exception outside the caught four    *)
(* leaves run_episode.                                                     *)
ApplyHint ==
    /\ pc = "apply"
    /\ \E r \in apply_hint(game, hint_data[1]) :
          /\ game' = r.game
          /\ IF r.outcome = "raised"
             THEN /\ pc' = "raised"
                  /\ UNCHANGED <<moves_made, invalid_moves, streak, left_by>>
             ELSE IF r.outcome = "result" /\ r.success
             THEN /\ moves_made' = moves_made + 1
                  /\ streak' = 0
                  /\ pc' = "while"
                  /\ UNCHANGED <<invalid_moves, left_by>>
             ELSE /\ invalid_moves' = CountInvalid(invalid_moves)
                  /\ streak' = streak + 1
                  /\ moves_made' = moves_made
                  /\ IF TooManyInvalid(invalid_moves')
                     THEN pc' = "after" /\ left_by' = "invalid"
                     ELSE pc' = "while" /\ left_by' = left_by
          /\ recorder' \in Recorded(recorder, r.outcome, r.success)
    /\ hint_data' = <<>>
    /\ UNCHANGED <<scoring, harness, tracer, args, hints_used, status, elapsed, result, first>>

(* Lines 385-403: read the clock, settle the status and return the result. *)
(* started_at and ended_at (datetime.now()) are not modelled.              *)
Finish ==
    /\ pc = "after"
    /\ \E t \in ClockReadings :
          /\ t >= elapsed
          /\ result' = <<EpisodeResult(t)>>
    /\ status' = FinalStatus(status, game)
    /\ recorder' = IF recorder = <<>> THEN <<>> ELSE <<FinalizeRecorder(recorder[1])>>
    /\ pc' = "done"
    /\ UNCHANGED <<scoring, harness, tracer, args, game, moves_made, invalid_moves, hints_used,
                   elapsed, hint_data, streak, left_by, first>>

(* A second call of run_episode with the arguments of the first.           *)
RunAgain ==
    /\ pc = "done"
    /\ first = <<>>
    /\ first' = result
    /\ pc' = "start" /\ game' = NoGame
    /\ moves_made' = 0 /\ invalid_moves' = 0 /\ hints_used' = 0 /\ status' = ""
    /\ elapsed' = 0 /\ hint_data' = <<>> /\ result' = <<>>
    /\ streak' = 0 /\ left_by' = ""
    /\ UNCHANGED <<scoring, harness, tracer, args, recorder>>

Init == InitEpisode({"any"}, BOOLEAN, 1 .. MaxMoves)

Next == Generate \/ WhileGuard \/ CheckTimeout \/ ObtainHint \/ ApplyHint \/ Finish

Spec == Init /\ [][Next]_vars

(* asyncio runs the one coroutine until it returns or raises.              *)
FairSpec == Spec /\ WF_vars(Next)

(* run_episode with a trace recorder attached.                             *)
InitTrace ==
    /\ ScoringIdle
    /\ HarnessIdle
    /\ TracerUnused
    /\ recorder = <<NewRecorder>>
    /\ args \in [game_class : {"any"}, difficulty : {"easy"}, seed : {42},
                 use_hints : {TRUE}, max_moves : {1}]
    /\ pc = "start" /\ game = NoGame
    /\ moves_made = 0 /\ invalid_moves = 0 /\ hints_used = 0 /\ status = ""
    /\ elapsed = 0 /\ hint_data = <<>> /\ result = <<>>
    /\ streak = 0 /\ left_by = "" /\ first = <<>>

SpecTrace == InitTrace /\ [][Next]_vars

InitRerun == InitEpisode({"kakuro"}, {TRUE}, {KakuroSize * KakuroSize})

NextRerun == Next \/ RunAgain

SpecRerun == InitRerun /\ [][NextRerun]_vars


---------------------------------------------------------------------------
(* Properties of run_episode.                                              *)

Returning == result # <<>>

C6_StatusByExit ==
    Returning =>
        LET r == result[1]
        IN  /\ r.status = "solved" <=> (left_by = "guard" /\ is_complete(game))
            /\ r.status = "timeout" <=> left_by = "timeout"
            /\ r.status = "failed" <=>
                  \/ left_by \in {"no_hint", "hints_off", "invalid"}
                  \/ left_by = "guard" /\ ~is_complete(game)
            /\ left_by = "guard" /\ ~is_complete(game) => r.moves_made = args.max_moves
            /\ r.hints_used = 0 /\ left_by \in {"no_hint", "hints_off"} =>
                  r.status = "failed" /\ r.moves_made = 0 /\ r.invalid_moves = 0

C6_Witness ==
    /\ Returning
    /\ result[1].status = "solved"
    /\ result[1].moves_made = args.max_moves
    /\ result[1].invalid_moves > 0

(* C7: every call of run_episode ends, by returning or by raising; each    *)
(* pass through the loop body leaves the loop or raises one of moves_made  *)
(* and invalid_moves, neither of which ever decreases or passes its cap.   *)
C7_Terminates ==
    /\ <>(pc \in {"done", "raised"})
    /\ [][/\ pc = "apply" =>
                \/ pc' \in {"after", "raised"}
                \/ moves_made' + invalid_moves' > moves_made + invalid_moves
          /\ moves_made' >= moves_made /\ invalid_moves' >= invalid_moves
          /\ moves_made' <= args.max_moves /\ invalid_moves' <= INVALID_LIMIT + 1]_vars

C7_Witness ==
    /\ pc = "done"
    /\ moves_made = args.max_moves
    /\ invalid_moves = INVALID_LIMIT

C9_StreakOnly == left_by = "invalid" => streak > INVALID_LIMIT

SameButTime(a, b) ==
    /\ a.game = b.game
    /\ a.difficulty = b.difficulty
    /\ a.seed = b.seed
    /\ a.status = b.status
    /\ a.moves_made = b.moves_made
    /\ a.invalid_moves = b.invalid_moves
    /\ a.hints_used = b.hints_used

---------------------------------------------------------------------------
(* eval.py: evaluate_game.                                                 *)

(* games/__init__.py: the names registered in AVAILABLE_GAMES.             *)
AVAILABLE_GAMES ==
    {"sudoku", "kenken", "kakuro", "binary", "futoshiki", "nonogram", "logic",
     "killer", "lights", "mastermind", "slither", "knapsack", "scheduler",
     "nurikabe", "einstein", "minesweeper"}

(* AVAILABLE_GAMES[game_name]: KakuroGame for "kakuro"; every other class  *)
(* is taken as a game whose own hints are accepted.                        *)
GameClassOf(game_name) == IF game_name = "kakuro" THEN "kakuro" ELSE "accepting"

MaxSeeds == 2

(* Values random.randint(1, 2**31 - 1) can return, and seeds a caller can  *)
(* pass.                                                                   *)
SeedSamples == {7, 42, 43}

GameNameSamples == {"sudoku", "nonexistent"}

SeedOfEpisodeReversed(game_seeds, i) == game_seeds[Len(game_seeds) - i]

(* for i, seed in enumerate(seeds): the seed of episode i, counted from 0. *)
SeedOfEpisode(game_seeds, i) == game_seeds[i + 1]

IsRegisteredAlways(game_name) == TRUE

(* if game_name not in AVAILABLE_GAMES                                     *)
IsRegistered(game_name) == game_name \in AVAILABLE_GAMES

(* random.randint(1, 2**31 - 1), episodes times.                           *)
GeneratedSeeds(episodes) == [1 .. episodes -> SeedSamples]

InitEvaluateGame ==
    /\ ScoringIdle
    /\ TracerUnused
    /\ recorder = <<>>
    /\ args = NoArgs
    /\ pc = "idle" /\ game = NoGame
    /\ moves_made = 0 /\ invalid_moves = 0 /\ hints_used = 0 /\ status = ""
    /\ elapsed = 0 /\ hint_data = <<>> /\ result = <<>>
    /\ streak = 0 /\ left_by = "" /\ first = <<>>
    /\ eg_args \in [game_name : GameNameSamples, difficulty : {"easy"},
                    episodes : 0 .. MaxSeeds,
                    seeds : Optional(SeqsUpTo(SeedSamples, MaxSeeds)),
                    use_hints : {TRUE}, max_moves : {1}]
    /\ eg = [NotCalled EXCEPT !.pc = "entry"]

(* Lines 416-426: reject an unregistered name; create the report; draw the *)
(* seeds when none were given.                                             *)
EvaluateGameEntry ==
    /\ eg.pc = "entry"
    /\ IF ~IsRegistered(eg_args.game_name)
       THEN eg' = [eg EXCEPT !.pc = "raised", !.error = "Unknown game"]
       ELSE \E drawn \in GeneratedSeeds(eg_args.episodes) :
               eg' = [eg EXCEPT
                         !.pc = "loop",
                         !.report = <<[game |-> eg_args.game_name,
                                       difficulty |-> eg_args.difficulty,
                                       episodes |-> <<>>]>>,
                         !.seeds = IF eg_args.seeds = <<>> THEN drawn
                                   ELSE eg_args.seeds[1]]
    /\ UNCHANGED <<scoring, engine, eg_args, tracer>>

(* Lines 428-438 and 444: call run_episode with the next seed, or return   *)
(* the report when the seeds are used up.                                  *)
EvaluateGameLoop ==
    /\ eg.pc = "loop"
    /\ IF eg.i < Len(eg.seeds)
       THEN /\ eg' = [eg EXCEPT !.pc = "episode"]
            /\ args' = [game_class |-> GameClassOf(eg_args.game_name),
                        difficulty |-> eg_args.difficulty,
                        seed |-> SeedOfEpisode(eg.seeds, eg.i),
                        use_hints |-> eg_args.use_hints,
                        max_moves |-> eg_args.max_moves]
            /\ pc' = "start"
       ELSE /\ eg' = [eg EXCEPT !.pc = "returned"]
            /\ UNCHANGED <<args, pc>>
    /\ UNCHANGED <<scoring, eg_args, tracer, game, locals, elapsed, hint_data, result, streak,
                   left_by, first, recorder>>

(* Line 439: report.episodes.append(result).                               *)
EvaluateGameAppend ==
    /\ eg.pc = "episode"
    /\ pc = "done"
    /\ eg' = [eg EXCEPT !.pc = "loop", !.i = @ + 1,
                        !.report[1].episodes = Append(@, result[1])]
    /\ args' = NoArgs
    /\ pc' = "idle" /\ game' = NoGame
    /\ moves_made' = 0 /\ invalid_moves' = 0 /\ hints_used' = 0 /\ status' = ""
    /\ elapsed' = 0 /\ hint_data' = <<>> /\ result' = <<>>
    /\ streak' = 0 /\ left_by' = ""
    /\ UNCHANGED <<scoring, eg_args, tracer, first, recorder>>

(* Lines 432-438: nothing around the call catches; an exception that       *)
(* leaves run_episode leaves evaluate_game.                                *)
EvaluateGameRaise ==
    /\ eg.pc = "episode"
    /\ pc = "raised"
    /\ eg' = [eg EXCEPT !.pc = "raised", !.error = "episode"]
    /\ UNCHANGED <<scoring, engine, eg_args, tracer>>

NextEvaluateGame ==
    \/ EvaluateGameEntry \/ EvaluateGameLoop \/ EvaluateGameAppend \/ EvaluateGameRaise
    \/ Next

SpecEvaluateGame == InitEvaluateGame /\ [][NextEvaluateGame]_vars


---------------------------------------------------------------------------
(* Properties of evaluate_game.                                            *)

ReportReturned == eg.pc = "returned"

(* C11, as claimed: called without a seed list, evaluate_game runs episode *)
(* i (from 0) with seed 42 + i.                                            *)
C11_SeedsFrom42 ==
    ReportReturned /\ eg_args.seeds = <<>> =>
        LET ran == eg.report[1].episodes
        IN  \A k \in DOMAIN ran : ran[k].seed = 42 + (k - 1)

(* C12: given a seed list, the report holds at every moment the results of *)
(* the first seeds of the list, in the list's order, one per seed, and on  *)
(* return one for every seed, whatever the episodes argument is.           *)
C12_ReportFollowsSeeds ==
    eg_args.seeds # <<>> /\ eg.report # <<>> =>
        LET ran == eg.report[1].episodes
            given == eg_args.seeds[1]
        IN  /\ Len(ran) = eg.i
            /\ Len(ran) <= Len(given)
            /\ \A k \in DOMAIN ran : ran[k].seed = given[k]
            /\ ReportReturned => Len(ran) = Len(given)

C12_Witness ==
    /\ ReportReturned
    /\ eg_args.seeds = << <<43, 42>> >>
    /\ eg_args.episodes = 1
    /\ Len(eg.report[1].episodes) = 2

(* C13, as claimed: no failure inside an episode leaves evaluate_game as   *)
(* an exception.                                                           *)
C13_EpisodeFailuresStayInside == ~(eg.pc = "raised" /\ eg.error = "episode")

(* C14: a name outside the registry ends evaluate_game with the "Unknown   *)
(* game" error, with no report, no game instance and no episode begun; no  *)
(* registered name gets that error.                                        *)
C14_UnknownGameRejected ==
    /\ eg_args.game_name \notin AVAILABLE_GAMES /\ eg.pc \notin {"idle", "entry"} =>
          /\ eg.pc = "raised"
          /\ eg.error = "Unknown game"
          /\ eg.report = <<>>
          /\ eg.i = 0
          /\ game = NoGame /\ pc = "idle" /\ args = NoArgs
    /\ eg.error = "Unknown game" => eg_args.game_name \notin AVAILABLE_GAMES

C14_Witness ==
    /\ eg_args.game_name = "nonexistent"
    /\ eg.pc = "raised"
    /\ eg.error = "Unknown game"


---------------------------------------------------------------------------
(* Properties of the recorder's tallies and of the hint count.             *)

---------------------------------------------------------------------------
(* Properties of the derived metrics and of the efficiency component,      *)
(* checked under SpecScore.                                                *)

InUnitInterval(x) == RatLe(RatInt(0), x) /\ RatLe(x, RatInt(1))

(* C16: every ReasoningMetrics value the model accepts has backtrack_rate  *)
(* in [0, 1], progress_velocity >= 0 and progress_steadiness in [0, 1].    *)
C16_DerivedMetricsInRange ==
    Returned("ReasoningMetrics") =>
        /\ InUnitInterval(ret[1].backtrack_rate)
        /\ RatLe(RatInt(0), ret[1].progress_velocity)
        /\ InUnitInterval(ret[1].progress_steadiness)

(* C17: for a solved episode the efficiency component of score_episode is  *)
(* efficiency_score whenever optimal_steps is known, the fallback being    *)
(* used only when it is unknown, and the component lies in [0, 1] for      *)
(* every steps_taken >= 0.                                                 *)
C17_EfficiencyComponentInRange ==
    Returned("score_episode") /\ success(arg[1]) =>
        /\ arg[1].optimal_steps # <<>> =>
               EfficiencyComponent(arg[1]) = efficiency_score(arg[1])
        /\ InUnitInterval(EfficiencyComponent(arg[1]))

---------------------------------------------------------------------------
(* The hint count of run_episode, checked under Spec.                      *)

AtLoopBoundary == pc \in {"while", "check", "act", "after", "done"}

(* C18: at every loop boundary and at the end of every episode run by the  *)
(* hint agent, moves_made + invalid_moves >= hints_used: each hint         *)
(* obtained is applied once and counted as one accepted or one rejected    *)
(* move (the two sums are equal), so hints_used = moves_made whenever no   *)
(* move was rejected.                                                      *)
C18_HintsCountedAsMoves ==
    /\ AtLoopBoundary =>
          /\ moves_made + invalid_moves >= hints_used
          /\ moves_made + invalid_moves = hints_used
          /\ invalid_moves = 0 => hints_used = moves_made
    /\ pc = "apply" => hints_used = moves_made + invalid_moves + 1
    /\ Returning =>
          /\ result[1].moves_made + result[1].invalid_moves >= result[1].hints_used
          /\ result[1].invalid_moves = 0 =>
                 result[1].hints_used = result[1].moves_made

C18_Witness ==
    /\ Returning
    /\ result[1].hints_used = 2
    /\ result[1].moves_made = 1
    /\ result[1].invalid_moves = 1

---------------------------------------------------------------------------
(* Properties of the family registry and of the results built on it,       *)
(* checked under SpecScore.                                                *)

TOTAL_GAMES == 30

FamilyNames == {REASONING_FAMILIES[i].family : i \in DOMAIN REASONING_FAMILIES}

(* The families whose list holds the name.                                 *)
ListedIn(name) ==
    {i \in DOMAIN REASONING_FAMILIES : name \in Range(REASONING_FAMILIES[i].games)}

(* C19: the registry has exactly the four families Logic, Constraint,      *)
(* Search and Planning; their lists together hold exactly 30 names, none   *)
(* twice; get_family maps a listed game to the one family that lists it    *)
(* and returns no family for a name that is not listed.                    *)
C19_RegistryPartitions ==
    Returned("get_family") =>
        /\ Len(REASONING_FAMILIES) = 4
        /\ FamilyNames = {"Logic", "Constraint", "Search", "Planning"}
        /\ Len(ALL_BENCHMARK_GAMES) = TOTAL_GAMES
        /\ Cardinality(Range(ALL_BENCHMARK_GAMES)) = TOTAL_GAMES
        /\ IF arg[1] \in Range(ALL_BENCHMARK_GAMES)
           THEN /\ Cardinality(ListedIn(arg[1])) = 1
                /\ \A i \in ListedIn(arg[1]) :
                       ret[1] = <<REASONING_FAMILIES[i].family>>
           ELSE ret[1] = <<>>

C19_Witness ==
    /\ Returned("get_family")
    /\ arg[1] = "sokoban"
    /\ ret[1] = <<"Planning">>

IsListed(report) == get_family(report.game) # <<>>

(* The reports dict without the reports of games that no family lists.     *)
ListedReports(reports) == SelectSeq(reports, IsListed)

(* C20: a report of a game with no registry entry is still scored and is   *)
(* tagged with family "Unknown"; with or without such reports every        *)
(* family has the same score, evaluated_count and game list, and the       *)
(* top-line score and the number of families evaluated are the same.       *)
C20_UnknownReportsLeaveFamiliesAlone ==
    /\ Returned("score_game") /\ ~IsListed(arg[1]) =>
          /\ ret[1].family = "Unknown"
          /\ ret[1].episodes_evaluated = Len(arg[1].episodes)
          /\ \A i \in DOMAIN arg[1].episodes :
                 ret[1].episode_scores[i] = score_episode(arg[1].episodes[i])
    /\ Returned("build_benchmark_result") =>
          LET with == ret[1]
              without == build_benchmark_result(ListedReports(arg[1]), "easy",
                                                MaxBuildEpisodes, "default")
          IN  /\ \A i \in DOMAIN with.families :
                    /\ with.families[i].games = without.families[i].games
                    /\ FamilyScore(with.families[i]) = FamilyScore(without.families[i])
                    /\ evaluated_count(with.families[i])
                          = evaluated_count(without.families[i])
              /\ chuk_r(with) = chuk_r(without)
              /\ families_evaluated(with) = families_evaluated(without)
              /\ \A i \in DOMAIN with.games :
                    get_family(with.games[i].game) = <<>> =>
                        with.games[i].family = "Unknown"
              /\ \A i \in DOMAIN arg[1] :
                    ~IsListed(arg[1][i]) /\ arg[1][i].episodes # <<>> =>
                        \E j \in DOMAIN with.games :
                            with.games[j].game = arg[1][i].game

C20_Witness ==
    /\ Returned("build_benchmark_result")
    /\ \E i, j \in DOMAIN arg[1] :
          /\ arg[1][i].game = "chess" /\ arg[1][i].episodes # <<>>
          /\ arg[1][j].game = "sudoku" /\ arg[1][j].episodes # <<>>
          /\ score_episode(arg[1][i].episodes[1]) # score_episode(arg[1][j].episodes[1])
    /\ Len(ret[1].games) = 2
    /\ families_evaluated(ret[1]) = 1

(* The declared games that have a report with at least one episode.        *)
DeclaredEvaluated(reports) ==
    {reports[i].game : i \in {j \in DOMAIN reports :
                                 IsListed(reports[j]) /\ reports[j].episodes # <<>>}}

(* C21: the coverage of a benchmark result is the number of declared games *)
(* with at least one evaluated episode over 30: it lies in [0, 1] and is   *)
(* below 1 whenever some declared game was not evaluated, whatever         *)
(* zero-episode reports or reports of undeclared games were passed in.     *)
C21_CoverageOfDeclaredGames ==
    Returned("build_benchmark_result") =>
        LET evaluated == Cardinality(DeclaredEvaluated(arg[1]))
        IN  /\ coverage(ret[1]) = Rat(evaluated, TOTAL_GAMES)
            /\ InUnitInterval(coverage(ret[1]))
            /\ evaluated < TOTAL_GAMES => RatLt(coverage(ret[1]), RatInt(1))

(* The names of a family entry's games, in the entry's order.              *)
GameNames(f) == [i \in DOMAIN f.games |-> f.games[i].game]

(* The reports supplied for the game.                                      *)
ReportsOf(reports, name) == {i \in DOMAIN reports : reports[i].game = name}

(* C22: for any reports, build_benchmark_result returns exactly four       *)
(* family entries; each entry lists every game its family declares exactly *)
(* once and no other game, as the scored result of the game's report when  *)
(* one was supplied and otherwise as a placeholder with 0 episodes         *)
(* evaluated, 0 solved and no scores; total_games is the declared count.   *)
C22_FamiliesListDeclaredGames ==
    Returned("build_benchmark_result") =>
        /\ Len(ret[1].families) = Len(REASONING_FAMILIES)
        /\ Len(ret[1].families) = 4
        /\ \A i \in DOMAIN ret[1].families :
              LET f == ret[1].families[i]
                  declared == REASONING_FAMILIES[i]
              IN  /\ f.family = declared.family
                  /\ f.total_games = Len(declared.games)
                  /\ Len(f.games) = Len(declared.games)
                  /\ Range(GameNames(f)) = Range(declared.games)
                  /\ \A k \in DOMAIN f.games :
                        IF ReportsOf(arg[1], f.games[k].game) # {}
                        THEN \A r \in ReportsOf(arg[1], f.games[k].game) :
                                f.games[k] = score_game(arg[1][r])
                        ELSE /\ f.games[k].episodes_evaluated = 0
                             /\ f.games[k].episodes_solved = 0
                             /\ f.games[k].episode_scores = <<>>
                             /\ f.games[k].family = declared.family

C22_Witness ==
    /\ Returned("build_benchmark_result")
    /\ \E i \in DOMAIN arg[1] :
          arg[1][i].game = "binary" /\ arg[1][i].episodes # <<>>
    /\ ReportsOf(arg[1], "sudoku") = {}
    /\ \E k, l \in DOMAIN ret[1].families[1].games :
          /\ ret[1].families[1].games[k].game = "binary"
          /\ ret[1].families[1].games[k].episodes_evaluated = 1
          /\ ret[1].families[1].games[l].game = "sudoku"
          /\ ret[1].families[1].games[l].episodes_evaluated = 0

(* C23: in every family entry the games appear in the order the registry   *)
(* declares them, whichever games were evaluated and in whatever order the *)
(* reports were supplied.                                                  *)
C23_GamesInRegistryOrder ==
    Returned("build_benchmark_result") =>
        \A i \in DOMAIN ret[1].families :
            GameNames(ret[1].families[i]) = REASONING_FAMILIES[i].games

---------------------------------------------------------------------------
(* puzzle_arcade_server/games: the games' own state and moves.  A game is  *)
(* a record of the fields the methods read and write; validate_move        *)
(* returns <<success, message, game afterwards>>, the message being named  *)
(* by its case.  str.lower() and str.title() are tables over the strings   *)
(* the moves are drawn from.                                               *)

lower(s) ==
    CASE s = "Select" -> "select"
      [] s = "Color" -> "color"
      [] s = "Reveal" -> "reveal"
      [] s = "White" -> "white"
      [] s = "Person" -> "person"
      [] OTHER -> s

title(s) ==
    CASE s = "red" -> "Red"
      [] s = "dog" -> "Dog"
      [] OTHER -> s

Max(a, b) == IF a >= b THEN a ELSE b

(* return True, message: the move was made.                                *)
Accepted(after, message) == <<TRUE, message, after>>

(* return False, message, reached before any write to the game.            *)
Rejected(g, message) == <<FALSE, message, g>>

(* The rows and columns (counted from 1) the moves on a grid are drawn     *)
(* from; 0 is outside every grid.                                          *)
MoveWindow == 0 .. 2

(* The accepted moves a game is followed for.                              *)
MaxGameMoves == 2

---------------------------------------------------------------------------
(* games/knapsack.py.  Items are numbered from 1; an item is               *)
(* [weight, value].                                                        *)

KnapsackItems == 2

(* weight = randint(1, 10): the lightest item and a middling one.          *)
WeightSamples == {1, 5}

(* value = randint(weight * 5, weight * 15): the two ends of the range.    *)
ValueSamples(weight) == {weight * 5, weight * 15}

(* capacity_factor of "easy", in tenths.                                   *)
CapacityTenths == 6

MinimumCapacity == 5

RECURSIVE SumWeights(_, _)
(* The total weight of the items whose flag is set in chosen.              *)
SumWeights(items, chosen) ==
    IF items = <<>> THEN 0
    ELSE (IF Head(chosen) THEN Head(items).weight ELSE 0)
         + SumWeights(Tail(items), Tail(chosen))

RECURSIVE SumValues(_, _)
SumValues(items, chosen) ==
    IF items = <<>> THEN 0
    ELSE (IF Head(chosen) THEN Head(items).value ELSE 0)
         + SumValues(Tail(items), Tail(chosen))

RECURSIVE KnapsackDp(_, _, _)
(* dp[i][w] of _solve_optimal: the best value of the first i items within  *)
(* capacity w.                                                             *)
KnapsackDp(items, i, w) ==
    IF i = 0 THEN 0
    ELSE LET skip == KnapsackDp(items, i - 1, w)
         IN  IF items[i].weight <= w
             THEN Max(skip, KnapsackDp(items, i - 1, w - items[i].weight) + items[i].value)
             ELSE skip

RECURSIVE KnapsackBacktrack(_, _, _, _)
(* The backtrack of _solve_optimal from item i down, w being the capacity  *)
(* left.                                                                   *)
KnapsackBacktrack(items, i, w, chosen) ==
    IF i = 0 THEN chosen
    ELSE IF KnapsackDp(items, i, w) # KnapsackDp(items, i - 1, w)
    THEN KnapsackBacktrack(items, i - 1, w - items[i].weight, [chosen EXCEPT ![i] = TRUE])
    ELSE KnapsackBacktrack(items, i - 1, w, chosen)

KnapsackCapacity(items) ==
    LET total_weight == SumWeights(items, [i \in DOMAIN items |-> TRUE])
        capacity == (total_weight * CapacityTenths) \div 10
    IN  IF capacity < MinimumCapacity THEN MinimumCapacity ELSE capacity

KnapsackItemSets ==
    [1 .. KnapsackItems ->
        UNION {[weight : {w}, value : ValueSamples(w)] : w \in WeightSamples}]

KnapsackGenerate ==
    {LET capacity == KnapsackCapacity(items)
         nothing == [i \in DOMAIN items |-> FALSE]
     IN  [kind |-> "knapsack",
          items |-> items,
          capacity |-> capacity,
          selection |-> nothing,
          optimal_value |-> KnapsackDp(items, Len(items), capacity),
          optimal_selection |-> KnapsackBacktrack(items, Len(items), capacity, nothing),
          moves_made |-> 0] : items \in KnapsackItemSets}

get_current_weight(g) == SumWeights(g.items, g.selection)

get_current_value(g) == SumValues(g.items, g.selection)

(* A move is [action, item_index], item_index counted from 1.              *)
KnapsackMoves ==
    [action : {"Select", "deselect", "drop"}, item_index : 0 .. KnapsackItems + 1]

KnapsackValidateMove(g, move) ==
    LET item_index == move.item_index - 1
        action == lower(move.action)
        at == item_index + 1
    IN  IF ~(0 <= item_index /\ item_index < Len(g.items))
        THEN Rejected(g, "invalid_item")
        ELSE IF action = "select"
        THEN IF g.selection[at] THEN Rejected(g, "already_selected")
             ELSE IF get_current_weight(g) + g.items[at].weight > g.capacity
             THEN Rejected(g, "exceeds_capacity")
             ELSE Accepted([g EXCEPT !.selection[at] = TRUE, !.moves_made = @ + 1], "selected")
        ELSE IF action = "deselect"
        THEN IF ~g.selection[at] THEN Rejected(g, "not_selected")
             ELSE Accepted([g EXCEPT !.selection[at] = FALSE, !.moves_made = @ + 1], "deselected")
        ELSE Rejected(g, "invalid_action")

KnapsackIsComplete(g) == get_current_value(g) = g.optimal_value

(* get_hint: <<>> for None, else <<hint_data>>, hint_data being the move.  *)
KnapsackGetHint(g) ==
    LET missing == {i \in DOMAIN g.items : g.optimal_selection[i] /\ ~g.selection[i]}
        surplus == {i \in DOMAIN g.items : ~g.optimal_selection[i] /\ g.selection[i]}
        Least(S) == CHOOSE i \in S : \A j \in S : i <= j
    IN  IF missing # {} THEN <<[action |-> "select", item_index |-> Least(missing)]>>
        ELSE IF surplus # {} THEN <<[action |-> "deselect", item_index |-> Least(surplus)]>>
        ELSE <<>>

---------------------------------------------------------------------------
(* games/minesweeper.py.  Cells are <<row, col>> counted from 0; revealed  *)
(* is 0 (unrevealed), 1 (revealed) or 2 (flagged).                         *)

MineSize == 3

MineCount == 1

MineCells == (0 .. MineSize - 1) \X (0 .. MineSize - 1)

(* The 8 cells around a cell that lie on the grid.                         *)
Around(cell) ==
    {n \in MineCells : n # cell /\ Abs(n[1] - cell[1]) <= 1 /\ Abs(n[2] - cell[2]) <= 1}

count_adjacent_mines(mines, cell) == Cardinality(Around(cell) \cap mines)

(* counts[row][col]: 0 on a mine.                                          *)
MineCounts(mines, cell) == IF cell \in mines THEN 0 ELSE count_adjacent_mines(mines, cell)

MinesweeperGenerate ==
    {[kind |-> "minesweeper",
      mines |-> mines,
      revealed |-> [c \in MineCells |-> 0],
      game_over |-> FALSE,
      hit_mine |-> FALSE,
      moves_made |-> 0] : mines \in {m \in SUBSET MineCells : Cardinality(m) = MineCount}}

RECURSIVE Flood(_, _, _)
(* The cells _reveal_cell reaches from the found ones: the unrevealed      *)
(* cells that are no mine around a found cell with no mine around it.      *)
Flood(mines, revealed, found) ==
    LET more == {n \in MineCells \ (mines \cup found) :
                    /\ revealed[n] = 0
                    /\ \E f \in found : n \in Around(f) /\ MineCounts(mines, f) = 0}
    IN  IF more = {} THEN found ELSE Flood(mines, revealed, found \cup more)

(* _reveal_cell: reveal the cell and, when no mine is around it, its       *)
(* unrevealed neighbours in the same way.  The order of the recursion does *)
(* not change the cells it reaches.                                        *)
reveal_cell(mines, revealed, cell) ==
    IF revealed[cell] # 0 THEN revealed
    ELSE LET found == Flood(mines, revealed, {cell})
         IN  [c \in MineCells |-> IF c \in found THEN 1 ELSE revealed[c]]

check_win(g) ==
    \A c \in MineCells :
        IF c \in g.mines THEN g.revealed[c] # 1 ELSE g.revealed[c] = 1

MinesweeperMoves ==
    [action : {"Reveal", "flag", "dig"}, row : MoveWindow, col : MoveWindow]

HitMineAsFailure(after) == <<FALSE, "boom", after>>

(* Lines 137-142: revealing a mine ends the game and is a move made.       *)
HitMine(after) == Accepted(after, "boom")

MinesweeperValidateMove(g, move) ==
    LET cell == <<move.row - 1, move.col - 1>>
        action == lower(move.action)
    IN  IF g.game_over THEN Rejected(g, "game_over")
        ELSE IF cell \notin MineCells THEN Rejected(g, "invalid_coordinates")
        ELSE IF action = "reveal" \/ action = "r"
        THEN IF g.revealed[cell] = 1 THEN Rejected(g, "already_revealed")
             ELSE IF g.revealed[cell] = 2 THEN Rejected(g, "flagged")
             ELSE IF cell \in g.mines
             THEN HitMine([g EXCEPT !.revealed[cell] = 1, !.game_over = TRUE,
                                    !.hit_mine = TRUE, !.moves_made = @ + 1])
             ELSE LET shown == [g EXCEPT !.revealed = reveal_cell(g.mines, @, cell),
                                         !.moves_made = @ + 1]
                  IN  IF check_win(shown)
                      THEN Accepted([shown EXCEPT !.game_over = TRUE], "won")
                      ELSE Accepted(shown, "revealed")
        ELSE IF action = "flag" \/ action = "f"
        THEN IF g.revealed[cell] = 1 THEN Rejected(g, "cannot_flag_revealed")
             ELSE IF g.revealed[cell] = 2
             THEN Accepted([g EXCEPT !.revealed[cell] = 0, !.moves_made = @ + 1], "unflagged")
             ELSE LET flagged == [g EXCEPT !.revealed[cell] = 2, !.moves_made = @ + 1]
                  IN  IF check_win(flagged)
                      THEN Accepted([flagged EXCEPT !.game_over = TRUE], "won")
                      ELSE Accepted(flagged, "flagged")
        ELSE Rejected(g, "invalid_action")

MinesweeperIsComplete(g) == g.game_over /\ ~g.hit_mine

---------------------------------------------------------------------------
(* games/einstein.py.  Houses are numbered from 1.  Two of the five        *)
(* attributes are kept, each with as many values as there are houses;      *)
(* validate_move treats every attribute alike and never reads the clues.   *)

EinsteinHouses == 2

Houses == 1 .. EinsteinHouses

EinsteinAttributes == <<"color", "pet">>

EinsteinValues ==
    [color |-> SubSeq(<<"Red", "Green", "Blue", "Yellow", "White">>, 1, EinsteinHouses),
     pet |-> SubSeq(<<"Dog", "Bird", "Cat", "Horse", "Fish">>, 1, EinsteinHouses)]

(* random.shuffle of a list: every order of its elements.                  *)
Shuffles(values) ==
    {p \in [DOMAIN values -> Range(values)] : \A i, j \in DOMAIN values : p[i] = p[j] => i = j}

EinsteinGenerate ==
    {[kind |-> "einstein",
      solution |-> [h \in Houses |-> [color |-> colors[h], pet |-> pets[h]]],
      assignments |-> [h \in Houses |-> [color |-> <<>>, pet |-> <<>>]],
      moves_made |-> 0] :
        colors \in Shuffles(EinsteinValues.color), pets \in Shuffles(EinsteinValues.pet)}

EinsteinMoves ==
    [house : MoveWindow,
     attribute : {"Color", "pet", "age"},
     value : {"Red", "Green", "Dog", "red", "Purple"}]

EinsteinValidateMove(g, move) ==
    LET house == move.house
        attribute == lower(move.attribute)
        value == title(move.value)
    IN  IF house \notin Houses THEN Rejected(g, "invalid_house")
        ELSE IF attribute \notin Range(EinsteinAttributes) THEN Rejected(g, "invalid_attribute")
        ELSE IF value \notin Range(EinsteinValues[attribute]) THEN Rejected(g, "invalid_value")
        ELSE IF \E i \in Houses : i # house /\ g.assignments[i][attribute] = <<value>>
        THEN Rejected(g, "already_assigned")
        ELSE Accepted([g EXCEPT !.assignments[house][attribute] = <<value>>,
                                !.moves_made = @ + 1],
                      IF g.assignments[house][attribute] # <<>> THEN "changed" ELSE "assigned")

EinsteinIsComplete(g) ==
    \A h \in Houses : \A k \in DOMAIN EinsteinAttributes :
        g.assignments[h][EinsteinAttributes[k]] = <<g.solution[h][EinsteinAttributes[k]]>>

(* get_hint: the first house, then the first attribute, whose assignment   *)
(* differs from the solution.                                              *)
EinsteinGetHint(g) ==
    LET wrong == {x \in Houses \X DOMAIN EinsteinAttributes :
                    g.assignments[x[1]][EinsteinAttributes[x[2]]]
                        # <<g.solution[x[1]][EinsteinAttributes[x[2]]]>>}
        Before(x, y) == x[1] < y[1] \/ (x[1] = y[1] /\ x[2] <= y[2])
        at == CHOOSE x \in wrong : \A y \in wrong : Before(x, y)
    IN  IF wrong = {} THEN <<>>
        ELSE <<[house |-> at[1],
                attribute |-> EinsteinAttributes[at[2]],
                value |-> g.solution[at[1]][EinsteinAttributes[at[2]]]]>>

---------------------------------------------------------------------------
(* games/nurikabe.py.  Cells are <<row, col>> counted from 0; a grid cell  *)
(* is 0 (unknown), 1 (white, island) or 2 (black, sea).  A clue is         *)
(* <<row, col, size>>.                                                     *)

NurikabeSize == 3

NurikabeIslands == 2

(* island_size = random.randint(2, 4)                                      *)
IslandSizes == 2 .. 4

NurikabeCells == (0 .. NurikabeSize - 1) \X (0 .. NurikabeSize - 1)

(* Cells that share an edge.                                               *)
Touching(a, b) == Abs(a[1] - b[1]) + Abs(a[2] - b[2]) = 1

Neighbours(cell) == {n \in NurikabeCells : Touching(n, cell)}

RECURSIVE try_place_island(_, _, _, _)
(* _try_place_island from the point where island and candidates are set:   *)
(* the islands the random choices can return, {} standing for None.  A     *)
(* neighbour is refused when it lies in or next to an existing island; the *)
(* start cell itself is never tested.                                      *)
try_place_island(island, candidates, size, existing) ==
    IF candidates = {} THEN {{}}
    ELSE UNION
           {LET free == {n \in Neighbours(cell) :
                            /\ n \notin island
                            /\ n \notin existing
                            /\ ~\E e \in existing : Touching(n, e)}
            IN  IF Cardinality(island) + Cardinality(free) >= size
                THEN {island \cup added :
                         added \in {a \in SUBSET free :
                                       Cardinality(a) = size - Cardinality(island)}}
                ELSE try_place_island(island \cup free, (candidates \ {cell}) \cup free,
                                      size, existing)
              : cell \in candidates}

(* One round of the island loop: the attempts draw a start cell and a size *)
(* until one places an island; when an attempt can fail, all 50 can, and   *)
(* the round then places nothing.                                          *)
PlaceIsland(placed, starts, sizes) ==
    LET Attempt(start, size) ==
            {[start |-> start, size |-> size, cells |-> cells] :
                cells \in try_place_island({start}, {start}, size, placed.white)}
        attempts == UNION {Attempt(d[1], d[2]) : d \in starts \X sizes}
    IN  {[white |-> placed.white \cup a.cells,
          clues |-> Append(placed.clues, <<a.start[1], a.start[2], a.size>>)] :
             a \in {x \in attempts : x.cells # {}}}
        \cup (IF \E x \in attempts : x.cells = {} THEN {placed} ELSE {})

RECURSIVE PlaceIslands(_, _, _, _)
PlaceIslands(k, placed, starts, sizes) ==
    IF k = 0 THEN {placed}
    ELSE UNION {PlaceIslands(k - 1, next, starts, sizes) :
                   next \in PlaceIsland(placed, starts, sizes)}

ClueCells(g) == {<<g.clues[i][1], g.clues[i][2]>> : i \in DOMAIN g.clues}

(* generate_puzzle with the start cells and sizes drawn from the given     *)
(* sets.                                                                   *)
NurikabePuzzles(starts, sizes) ==
    {LET clue_cells == {<<p.clues[i][1], p.clues[i][2]>> : i \in DOMAIN p.clues}
     IN  [kind |-> "nurikabe",
          solution |-> [c \in NurikabeCells |-> IF c \in p.white THEN 1 ELSE 2],
          clues |-> p.clues,
          grid |-> [c \in NurikabeCells |-> IF c \in clue_cells THEN 1 ELSE 0],
          moves_made |-> 0] :
        p \in PlaceIslands(NurikabeIslands, [white |-> {}, clues |-> <<>>], starts, sizes)}

NurikabeMoves ==
    [row : MoveWindow, col : MoveWindow, color : {"White", "black", "clear", "grey"}]

NurikabeValidateMove(g, move) ==
    LET cell == <<move.row - 1, move.col - 1>>
        color == lower(move.color)
    IN  IF cell \notin NurikabeCells THEN Rejected(g, "invalid_coordinates")
        ELSE IF cell \in ClueCells(g) THEN Rejected(g, "clue_cell")
        ELSE IF color = "white" \/ color = "w"
        THEN Accepted([g EXCEPT !.grid[cell] = 1, !.moves_made = @ + 1], "white")
        ELSE IF color = "black" \/ color = "b"
        THEN Accepted([g EXCEPT !.grid[cell] = 2, !.moves_made = @ + 1], "black")
        ELSE IF color = "clear" \/ color = "c"
        THEN IF g.grid[cell] = 0 THEN Rejected(g, "already_unmarked")
             ELSE Accepted([g EXCEPT !.grid[cell] = 0, !.moves_made = @ + 1], "cleared")
        ELSE Rejected(g, "invalid_color")

RECURSIVE Spread(_, _, _)
(* The breadth-first search of _get_island_from_cell and                   *)
(* _check_black_connected: the cells of the given colour joined to the     *)
(* found ones by edges.                                                    *)
Spread(grid, colour, found) ==
    LET more == {c \in NurikabeCells :
                    c \notin found /\ grid[c] = colour /\ \E f \in found : Touching(c, f)}
    IN  IF more = {} THEN found ELSE Spread(grid, colour, found \cup more)

get_island_from_cell(grid, cell) == IF grid[cell] # 1 THEN {} ELSE Spread(grid, 1, {cell})

check_black_connected(grid) ==
    LET black == {c \in NurikabeCells : grid[c] = 2}
        first_black == CHOOSE c \in black :
                          \A d \in black : c[1] < d[1] \/ (c[1] = d[1] /\ c[2] <= d[2])
    IN  black = {} \/ Spread(grid, 2, {first_black}) = black

has_2x2_black(grid) ==
    \E c \in NurikabeCells :
        /\ c[1] < NurikabeSize - 1
        /\ c[2] < NurikabeSize - 1
        /\ grid[c] = 2
        /\ grid[<<c[1], c[2] + 1>>] = 2
        /\ grid[<<c[1] + 1, c[2]>>] = 2
        /\ grid[<<c[1] + 1, c[2] + 1>>] = 2

NurikabeIsComplete(g) ==
    /\ \A c \in NurikabeCells : g.grid[c] # 0
    /\ \A i \in DOMAIN g.clues :
          Cardinality(get_island_from_cell(g.grid, <<g.clues[i][1], g.clues[i][2]>>))
              = g.clues[i][3]
    /\ check_black_connected(g.grid)
    /\ ~has_2x2_black(g.grid)

(* get_hint: the first cell, row by row, that is no clue cell and differs  *)
(* from the solution.                                                      *)
NurikabeGetHint(g) ==
    LET wrong == {c \in NurikabeCells \ ClueCells(g) : g.grid[c] # g.solution[c]}
        at == CHOOSE c \in wrong : \A d \in wrong : c[1] < d[1] \/ (c[1] = d[1] /\ c[2] <= d[2])
    IN  IF wrong = {} THEN <<>>
        ELSE <<[row |-> at[1] + 1, col |-> at[2] + 1,
                color |-> IF g.solution[at] = 1 THEN "white" ELSE "black"]>>

---------------------------------------------------------------------------
(* games/logic_grid.py.  player_grid maps a key <<cat1, val1, cat2, val2>> *)
(* to <<>> (no entry) or <<state>>.  The clues are text only and are left  *)
(* out.                                                                    *)

LogicSize == 2

LogicCategories ==
    [person |-> SubSeq(<<"Alice", "Bob", "Carol", "Dave", "Eve">>, 1, LogicSize),
     color |-> SubSeq(<<"Red", "Blue", "Green", "Yellow", "Purple">>, 1, LogicSize),
     pet |-> SubSeq(<<"Cat", "Dog", "Bird", "Fish", "Rabbit">>, 1, LogicSize),
     drink |-> SubSeq(<<"Coffee", "Tea", "Juice", "Water", "Milk">>, 1, LogicSize)]

(* The category names in string order, which cat1 < cat2 compares.         *)
CategoryOrder == <<"color", "drink", "person", "pet">>

CategoryRank(cat) == CHOOSE k \in DOMAIN CategoryOrder : CategoryOrder[k] = cat

LogicKeys ==
    LET names == Range(CategoryOrder)
        values == UNION {Range(LogicCategories[c]) : c \in names}
    IN  {k \in names \X values \X names \X values :
            /\ CategoryRank(k[1]) < CategoryRank(k[3])
            /\ k[2] \in Range(LogicCategories[k[1]])
            /\ k[4] \in Range(LogicCategories[k[3]])}

LogicGenerate ==
    {[kind |-> "logic",
      solution |-> [i \in 1 .. LogicSize |->
                       [person |-> LogicCategories.person[i], color |-> colors[i],
                        pet |-> pets[i], drink |-> drinks[i]]],
      player_grid |-> [k \in LogicKeys |-> <<>>],
      moves_made |-> 0] :
        colors \in Shuffles(LogicCategories.color),
        pets \in Shuffles(LogicCategories.pet),
        drinks \in Shuffles(LogicCategories.drink)}

LogicMoves ==
    [cat1 : {"Person", "color", "age"}, val1 : {"Alice", "Red", "Zed"},
     cat2 : {"person", "color"}, val2 : {"Alice", "Red"},
     state : BOOLEAN]

LogicValidateMove(g, move) ==
    LET cat1 == lower(move.cat1)
        cat2 == lower(move.cat2)
        key == IF CategoryRank(cat1) < CategoryRank(cat2)
               THEN <<cat1, move.val1, cat2, move.val2>>
               ELSE <<cat2, move.val2, cat1, move.val1>>
    IN  IF cat1 \notin DOMAIN LogicCategories \/ cat2 \notin DOMAIN LogicCategories
        THEN Rejected(g, "invalid_category")
        ELSE IF cat1 = cat2 THEN Rejected(g, "same_category")
        ELSE IF move.val1 \notin Range(LogicCategories[cat1]) THEN Rejected(g, "invalid_val1")
        ELSE IF move.val2 \notin Range(LogicCategories[cat2]) THEN Rejected(g, "invalid_val2")
        ELSE Accepted([g EXCEPT !.player_grid[key] = <<move.state>>, !.moves_made = @ + 1],
                      "marked")

---------------------------------------------------------------------------
(* The games played move by move: any move of the sampled ones at any      *)
(* time, and the move get_hint gives.  fn names the method the step began  *)
(* with, ret = <<success, message>> is what validate_move returned, and    *)
(* hint_data is <<the hint>> when the move came from get_hint.             *)

KakuroMoves == [row : MoveWindow, col : MoveWindow, num : {0, 1, 10}]

(* The Nurikabe puzzles whose attempts all drew the top left cell and the  *)
(* smallest size.                                                          *)
NurikabeSamples == NurikabePuzzles({<<0, 0>>}, {2})

GamesGenerated ==
    KnapsackGenerate \cup MinesweeperGenerate \cup EinsteinGenerate
        \cup NurikabeSamples \cup KakuroGenerate \cup LogicGenerate

InitGames ==
    /\ HarnessIdle
    /\ TracerUnused
    /\ recorder = <<>>
    /\ args = NoArgs
    /\ pc = "idle"
    /\ moves_made = 0 /\ invalid_moves = 0 /\ hints_used = 0 /\ status = ""
    /\ elapsed = 0 /\ hint_data = <<>> /\ result = <<>>
    /\ streak = 0 /\ left_by = "" /\ first = <<>>
    /\ game \in GamesGenerated
    /\ fn = "generate_puzzle" /\ arg = <<>> /\ ret = <<>>

(* The caller's step: the method was called with the move and returned.    *)
Played(method, hint, returned) ==
    /\ fn' = method
    /\ hint_data' = hint
    /\ ret' = <<returned[1], returned[2]>>
    /\ game' = returned[3]
    /\ UNCHANGED <<arg, args, pc, locals, elapsed, result, streak, left_by, first,
                   recorder, harness, tracer>>

StillPlayed(kind) == game.kind = kind /\ game.moves_made < MaxGameMoves

KnapsackMove ==
    /\ StillPlayed("knapsack")
    /\ \E move \in KnapsackMoves :
          Played("validate_move", <<>>, KnapsackValidateMove(game, move))

MinesweeperMove ==
    /\ StillPlayed("minesweeper")
    /\ \E move \in MinesweeperMoves :
          Played("validate_move", <<>>, MinesweeperValidateMove(game, move))

EinsteinMove ==
    /\ StillPlayed("einstein")
    /\ \E move \in EinsteinMoves :
          Played("validate_move", <<>>, EinsteinValidateMove(game, move))

NurikabeMove ==
    /\ StillPlayed("nurikabe")
    /\ \E move \in NurikabeMoves :
          Played("validate_move", <<>>, NurikabeValidateMove(game, move))

KakuroMove ==
    /\ StillPlayed("kakuro")
    /\ \E move \in KakuroMoves :
          LET moved == KakuroValidateMove(game, move.row, move.col, move.num)
          IN  Played("validate_move", <<>>, <<moved[1], "", moved[2]>>)

LogicMove ==
    /\ StillPlayed("logic")
    /\ \E move \in LogicMoves :
          Played("validate_move", <<>>, LogicValidateMove(game, move))

(* The hint agent's step on Knapsack: get_hint, then validate_move with    *)
(* what it returned.                                                       *)
KnapsackHint ==
    /\ StillPlayed("knapsack")
    /\ ~KnapsackIsComplete(game)
    /\ KnapsackGetHint(game) # <<>>
    /\ Played("get_hint", KnapsackGetHint(game),
              KnapsackValidateMove(game, KnapsackGetHint(game)[1]))

EinsteinHint ==
    /\ StillPlayed("einstein")
    /\ ~EinsteinIsComplete(game)
    /\ EinsteinGetHint(game) # <<>>
    /\ Played("get_hint", EinsteinGetHint(game),
              EinsteinValidateMove(game, EinsteinGetHint(game)[1]))

NextGames ==
    \/ KnapsackMove
    \/ MinesweeperMove
    \/ EinsteinMove
    \/ NurikabeMove
    \/ KakuroMove
    \/ LogicMove
    \/ KnapsackHint
    \/ EinsteinHint

SpecGames == InitGames /\ [][NextGames]_vars

---------------------------------------------------------------------------
(* Properties of the games' moves, checked under SpecGames.                *)

(* C24: in each of the six games and in every reachable state, a           *)
(* validate_move call that returns failure leaves the whole game state     *)
(* (board, selection or assignments, moves_made, the game-over and         *)
(* hit-mine flags) exactly as it was.                                      *)
C24_RejectedMoveChangesNothing ==
    [][(ret' # <<>> /\ ~ret'[1]) => game' = game]_vars

C24_Witness ==
    /\ fn = "validate_move"
    /\ game.kind = "minesweeper"
    /\ game.hit_mine
    /\ game.moves_made = 1
    /\ ret = <<FALSE, "game_over">>

(* C25: in every state reached from a freshly generated puzzle by accepted *)
(* moves, when the puzzle is not complete and get_hint returns an action,  *)
(* validate_move accepts that action (Knapsack and Einstein).  A step that *)
(* began with get_hint has passed the action to validate_move, and ret is  *)
(* what validate_move returned.                                            *)
C25_HintIsAccepted ==
    fn = "get_hint" => ret[1]

(* Every well-formed Einstein move: a house, an attribute and one of the   *)
(* attribute's values.                                                     *)
EinsteinAssignMoves ==
    UNION {[house : Houses, attribute : {EinsteinAttributes[k]},
            value : Range(EinsteinValues[EinsteinAttributes[k]])] :
                k \in DOMAIN EinsteinAttributes}

RECURSIVE EinsteinReach(_, _)
(* The games validate_move can lead to from the games of frontier, by any  *)
(* number of calls; moves_made is left out of the comparison.              *)
EinsteinReach(found, frontier) ==
    IF frontier = {} THEN found
    ELSE LET next == {[EinsteinValidateMove(g[1], g[2])[3] EXCEPT !.moves_made = 0] :
                        g \in frontier \X EinsteinAssignMoves} \ found
         IN  EinsteinReach(found \cup next, next)

CanStillBeSolved(g) ==
    LET from == [g EXCEPT !.moves_made = 0]
    IN  \E after \in EinsteinReach({from}, {from}) : EinsteinIsComplete(after)

NoValueHeldTwice(g) ==
    \A h1, h2 \in Houses : \A k \in DOMAIN EinsteinAttributes :
        LET held == g.assignments[h1][EinsteinAttributes[k]]
        IN  (h1 # h2 /\ held # <<>>) => g.assignments[h2][EinsteinAttributes[k]] # held

(* C29: in the Einstein game, in every state reachable through            *)
(* validate_move no attribute value is held by two different houses, and   *)
(* from every such state the solved state can still be reached by further  *)
(* accepted validate_move calls: no reachable state is a dead end.         *)
C29_NoDuplicateAndNoDeadEnd ==
    game.kind = "einstein" => NoValueHeldTwice(game) /\ CanStillBeSolved(game)

---------------------------------------------------------------------------
(* Nurikabe from every puzzle generate_puzzle can produce, solved by       *)
(* following get_hint until the grid equals the stored solution.           *)

InitNurikabe ==
    /\ HarnessIdle
    /\ TracerUnused
    /\ recorder = <<>>
    /\ args = NoArgs
    /\ pc = "idle"
    /\ moves_made = 0 /\ invalid_moves = 0 /\ hints_used = 0 /\ status = ""
    /\ elapsed = 0 /\ hint_data = <<>> /\ result = <<>>
    /\ streak = 0 /\ left_by = "" /\ first = <<>>
    /\ game \in NurikabePuzzles(NurikabeCells, IslandSizes)
    /\ fn = "generate_puzzle" /\ arg = <<>> /\ ret = <<>>

NurikabeHint ==
    /\ game.kind = "nurikabe"
    /\ NurikabeGetHint(game) # <<>>
    /\ Played("get_hint", NurikabeGetHint(game),
              NurikabeValidateMove(game, NurikabeGetHint(game)[1]))

NextNurikabe == NurikabeHint

SpecNurikabe == InitNurikabe /\ [][NextNurikabe]_vars

(* C28: for every puzzle Nurikabe's generate_puzzle can produce, the       *)
(* stored solution satisfies all the rules is_complete checks (island      *)
(* sizes equal to the clues, islands apart, black cells connected, no 2x2  *)
(* black block), so a grid equal to the stored solution is reported        *)
(* complete.                                                               *)
C28_StoredSolutionIsComplete ==
    game.grid = game.solution => NurikabeIsComplete(game)

---------------------------------------------------------------------------
(* run_episode cancelled.  run_episode takes no cancellation token; what   *)
(* asyncio offers is Task.cancel(), which raises CancelledError in the     *)
(* coroutine at the await it is suspended in: generate_puzzle (line 337),  *)
(* get_hint (line 356) or _apply_hint (line 367).  No except clause of     *)
(* run_episode catches it (line 376 names four other types), so it ends    *)
(* the call.  left_by records that the call was left this way.             *)

Cancel ==
    /\ \/ pc = "start"
       \/ pc = "act" /\ args.use_hints
       \/ pc = "apply"
    /\ pc' = "raised"
    /\ left_by' = "cancelled"
    /\ UNCHANGED <<scoring, harness, tracer, args, game, locals, elapsed, hint_data, result, streak,
                   first, recorder>>

NextCancel == Next \/ Cancel

SpecCancel == Init /\ [][NextCancel]_vars

(* C26: if cancellation is signalled while an episode is running, the loop *)
(* leaves at the next move boundary, the episode's status is Abandoned and *)
(* the counts of the moves already made are kept in the result: once the   *)
(* cancelled call has ended there is a result, it says abandoned and it    *)
(* holds the counters.                                                     *)
C26_CancelledEpisodeIsAbandoned ==
    (left_by = "cancelled" /\ pc \in {"done", "raised"}) =>
        /\ result # <<>>
        /\ result[1].status = "abandoned"
        /\ result[1].moves_made = moves_made
        /\ result[1].invalid_moves = invalid_moves
        /\ result[1].hints_used = hints_used

---------------------------------------------------------------------------
(* models/evaluation.py: TraceEvent and EpisodeTracer.  The tracer is      *)
(* [episode_id, start_time_ns, events, output]: episode_id is <<>> for     *)
(* None, output is <<>> for None and else <<the lines written>>.  Of an    *)
(* event's data only the caller's **extra is kept, as <<>> or              *)
(* <<key, value>>; the named fields of the payload are left out.           *)

MaxEvents == 3

(* uuid4().hex[:12]: any id, a repeated one included.                      *)
EpisodeIds == 1 .. 2

(* time.time_ns() at start_episode, never 0.                               *)
StartTimes == {1}

(* int((time.time_ns() - self._start_time_ns) / 1_000_000)                 *)
ElapsedSamples == {0, 1}

(* **extra: nothing, or a keyword that to_jsonl also writes itself.        *)
Extras == {<<>>, <<"type", "note">>, <<"id", 0>>}

TraceEvent(type, episode_id, timestamp_ms, data) ==
    [type |-> type, episode_id |-> episode_id, timestamp_ms |-> timestamp_ms, data |-> data]

(* {"type": ..., "id": ..., "ts": ..., **self.data}: a key of data         *)
(* replaces the key written before it.                                     *)
to_jsonl(event) ==
    LET Written(key, value) ==
            IF event.data # <<>> /\ event.data[1] = key THEN event.data[2] ELSE value
    IN  [type |-> Written("type", event.type),
         id |-> Written("id", event.episode_id),
         ts |-> Written("ts", event.timestamp_ms)]

(* EpisodeTracer.__init__                                                  *)
NewTracer(output) ==
    [episode_id |-> <<>>, start_time_ns |-> 0, events |-> <<>>, output |-> output]

elapsed_ms(t) == IF t.start_time_ns = 0 THEN {0} ELSE ElapsedSamples

emit(t, event) ==
    [t EXCEPT !.events = Append(@, event),
              !.output = IF @ = <<>> THEN @ ELSE <<Append(@[1], to_jsonl(event))>>]

start_episode(t, id, now, extra) ==
    emit([t EXCEPT !.episode_id = <<id>>, !.start_time_ns = now, !.events = <<>>],
         TraceEvent("episode_start", id, 0, extra))

(* log_observation, log_action, log_hint and log_reasoning differ in the   *)
(* type they give the event.                                               *)
log_event(t, type, ts, extra) ==
    IF t.episode_id = <<>> THEN t
    ELSE emit(t, TraceEvent(type, t.episode_id[1], ts, extra))

log_observation(t, ts, extra) == log_event(t, "observation", ts, extra)

log_action(t, ts, extra) == log_event(t, "action", ts, extra)

log_hint(t, ts, extra) == log_event(t, "hint", ts, extra)

log_reasoning(t, ts, extra) == log_event(t, "reasoning", ts, extra)

end_episode(t, ts, extra) ==
    IF t.episode_id = <<>> THEN t
    ELSE [emit(t, TraceEvent("episode_end", t.episode_id[1], ts, extra))
             EXCEPT !.episode_id = <<>>, !.start_time_ns = 0]

(* The events the tracer holds or has written, the most since the file     *)
(* was opened.                                                             *)
TraceLength(t) == IF t.output = <<>> THEN Len(t.events) ELSE Len(t.output[1])

InitTracer ==
    /\ ScoringIdle
    /\ HarnessIdle
    /\ recorder = <<>>
    /\ args = NoArgs
    /\ pc = "idle" /\ game = NoGame
    /\ moves_made = 0 /\ invalid_moves = 0 /\ hints_used = 0 /\ status = ""
    /\ elapsed = 0 /\ hint_data = <<>> /\ result = <<>>
    /\ streak = 0 /\ left_by = "" /\ first = <<>>
    /\ tracer \in {<<NewTracer(output)>> : output \in {<<>>, <<<<>>>>}}

TracerCalled(after) ==
    /\ TraceLength(tracer[1]) < MaxEvents
    /\ tracer' = <<after>>
    /\ UNCHANGED <<scoring, engine, harness>>

StartEpisode ==
    /\ tracer # <<>>
    /\ \E id \in EpisodeIds, now \in StartTimes, extra \in Extras :
          TracerCalled(start_episode(tracer[1], id, now, extra))

LogObservation ==
    /\ tracer # <<>>
    /\ \E ts \in elapsed_ms(tracer[1]), extra \in Extras :
          TracerCalled(log_observation(tracer[1], ts, extra))

LogAction ==
    /\ tracer # <<>>
    /\ \E ts \in elapsed_ms(tracer[1]), extra \in Extras :
          TracerCalled(log_action(tracer[1], ts, extra))

LogHint ==
    /\ tracer # <<>>
    /\ \E ts \in elapsed_ms(tracer[1]), extra \in Extras :
          TracerCalled(log_hint(tracer[1], ts, extra))

LogReasoning ==
    /\ tracer # <<>>
    /\ \E ts \in elapsed_ms(tracer[1]), extra \in Extras :
          TracerCalled(log_reasoning(tracer[1], ts, extra))

EndEpisode ==
    /\ tracer # <<>>
    /\ \E ts \in elapsed_ms(tracer[1]), extra \in Extras :
          TracerCalled(end_episode(tracer[1], ts, extra))

NextTracer ==
    \/ StartEpisode
    \/ LogObservation
    \/ LogAction
    \/ LogHint
    \/ LogReasoning
    \/ EndEpisode

SpecTracer == InitTracer /\ [][NextTracer]_vars

EventKinds == {"episode_start", "observation", "action", "hint", "episode_end"}

(* C27: every event an EpisodeTracer emits, after any sequence of calls to *)
(* its public methods, has a type that is one of the five kinds            *)
(* episode_start, observation, action, hint, episode_end, and carries the  *)
(* episode id and a relative timestamp.                                    *)
C27_EventsOfFiveKinds ==
    /\ \A i \in DOMAIN tracer[1].events :
          /\ tracer[1].events[i].type \in EventKinds
          /\ tracer[1].events[i].episode_id \in EpisodeIds
          /\ tracer[1].events[i].timestamp_ms \in ElapsedSamples
    /\ tracer[1].output # <<>> =>
          \A i \in DOMAIN tracer[1].output[1] :
              /\ tracer[1].output[1][i].type \in EventKinds
              /\ tracer[1].output[1][i].id \in EpisodeIds
              /\ tracer[1].output[1][i].ts \in ElapsedSamples

RECURSIVE OpenEpisode(_)
(* The id of the episode that the written lines leave open, <<>> if none.  *)
OpenEpisode(lines) ==
    IF lines = <<>> THEN <<>>
    ELSE LET last == lines[Len(lines)]
         IN  IF last.type = "episode_start" THEN <<last.id>>
             ELSE IF last.type = "episode_end" THEN <<>>
             ELSE OpenEpisode(SubSeq(lines, 1, Len(lines) - 1))

(* C30: the event stream an EpisodeTracer writes is well bracketed under   *)
(* every sequence of start_episode, log_* and end_episode calls: an        *)
(* episode_start comes only when no episode is open, every other event     *)
(* comes while one is open and carries its id, and calls made while no     *)
(* episode is open emit nothing.                                           *)
C30_StreamWellBracketed ==
    tracer[1].output # <<>> =>
        \A i \in DOMAIN tracer[1].output[1] :
            LET line == tracer[1].output[1][i]
                open == OpenEpisode(SubSeq(tracer[1].output[1], 1, i - 1))
            IN  IF line.type = "episode_start" THEN open = <<>>
                ELSE open = <<line.id>>

====
